---- MODULE Spec2Model ----
(***************************************************************************)
(* A model of helper/cinnabar-fast-import.c (git-cinnabar): the heads      *)
(* sets, the notes trees fed by `set`, the file store and the tail window  *)
(* kept over the pack being written.                                       *)
(***************************************************************************)
EXTENDS Integers, Sequences, FiniteSets, TLC

VARIABLES
    odb,          \* the Git object database: oid -> [type, body]
    graph,        \* parents of each commit body: commit id -> sequence of commit ids
    tip,          \* the commit the heads ref points at: [exists, parents, flat]
    heads_kind,   \* which oid_array the heads variables stand for
    heads,        \* struct oid_array .oid[0 .. nr-1]
    heads_sorted, \* struct oid_array .sorted
    pack,         \* the pack being written, its tail window and its hashfile
    object_table, \* fast-import's object entries: oid -> [offset, pack_id]
    stored,       \* history: where each object of the current pack was written
    hg2git,       \* notes tree: Mercurial node -> Git oid
    git2hg,       \* notes tree: Git commit oid -> oid of the metadata blob
    files_meta,   \* notes tree: Mercurial file node -> oid of the metadata blob
    last_file,    \* store_file's static last_file: [oid, file]
    probe,        \* history: the chunk a session follows and its first store
    last_manifest,\* the statics of the manifest store: node, commit, tree, text
    experiments,  \* whether EXPERIMENT_STORE is set in cinnabar_experiments
    cg,           \* do_store reading a changegroup: [phase, stream, pos, ...]
    dirty,        \* which notes trees hold modifications not written out yet
    shallow,      \* the registered shallow commits, and update_shallow
    manifest_tree,\* struct manifest_tree over the tree it walks
    session,      \* initialized, require_explicit_termination, the branch
                  \* table, what the process left in the repository, and
                  \* history: whether an object was stored since `done`
    last          \* the last command executed and how it ended

headVars == <<graph, tip, heads_kind, heads, heads_sorted>>
packVars == <<pack, object_table, stored>>
noteVars == <<hg2git, git2hg, files_meta>>
manifestVars == <<last_manifest, experiments>>
sessionVars == <<dirty, shallow, manifest_tree, session>>
vars == <<odb, headVars, packVars, noteVars, last_file, probe, manifestVars, cg,
          sessionVars, last>>

(***************************************************************************)
(* Git objects and their oids.  A body is a sequence of small tokens; the  *)
(* oid is a collision-free encoding of (type, body).                       *)
(***************************************************************************)
NullOid == 0

NUL == 0

Radix == 5

TypeCode(type) == CASE type = "blob" -> 0 [] type = "commit" -> 1 [] type = "tree" -> 2

RECURSIVE Enc(_)
Enc(body) == IF body = <<>> THEN 0 ELSE (Head(body) + 1) + Radix * Enc(Tail(body))

HashObject(type, body) == 1 + TypeCode(type) + 3 * Enc(body)

\* Mercurial node ids: the null id, and the node of the empty file
NullHgOid == 0

EmptyHgFile == 3

\* no node is taken for that of the empty file
never_empty_hg_file(node) == FALSE

is_empty_hg_file(node) == node = EmptyHgFile

\* struct hg_file after hg_file_init / hg_file_release
NoFile == [oid |-> NullHgOid, file |-> <<>>]

\* no chunk is followed: no file chunk carries the null node
NoProbe == [chunk |-> [node |-> NullHgOid, delta_node |-> NullHgOid, diffs |-> <<>>],
            seen |-> FALSE, base |-> <<>>, oid |-> NullOid]

\* the mirror branch of the manifest store before any manifest is loaded
NoManifest == [hg_oid |-> NullHgOid, oid |-> NullOid, tree |-> <<>>, content |-> <<>>]

\* no changegroup is being read
NoChangegroup ==
    [phase |-> "none", version |-> 0, delta_node |-> NullHgOid, node |-> NullHgOid,
     parent1 |-> NullHgOid, encoded |-> NullHgOid, delta |-> NullHgOid,
     read |-> <<>>, log |-> <<>>]

\* no notes tree is modified; dirty is indexed by the X of `store metadata X`
NotDirty == [n \in {"hg2git", "git2hg", "files-meta"} |-> FALSE]

\* no commit is registered as shallow, update_shallow is 0
NoShallow == [registered |-> {}, update_shallow |-> FALSE]

\* struct manifest_tree before manifest_tree_init
NoManifestTree == [root |-> <<>>, stack |-> <<>>, prefix_len |-> 0]

\* the process before init(): no branch in the table; no ref, object or
\* shallow file written by it
NoSession ==
    [initialized |-> FALSE, require_explicit_termination |-> FALSE,
     branches |-> <<>>, refs |-> <<>>, packed |-> {}, shallow_file |-> <<>>,
     since_done |-> FALSE]

\* the sessions that store no metadata, hold no shallow commit and walk no
\* tree
InitSession ==
    /\ dirty = NotDirty
    /\ shallow = NoShallow
    /\ manifest_tree = NoManifestTree
    /\ session = NoSession

Put(f, k, v) == [x \in DOMAIN f \cup {k} |-> IF x = k THEN v ELSE f[x]]

Remove(f, k) == [x \in DOMAIN f \ {k} |-> f[x]]

\* oid_object_info(): the type of an oid, "none" when the object does not exist
oid_object_info(oid) == IF oid \in DOMAIN odb THEN odb[oid].type ELSE "none"

\* c->parents of a parsed commit: trailing NULs do not change the header
CommitParents(oid) ==
    IF "parents" \in DOMAIN odb[oid] THEN odb[oid].parents
    ELSE LET ps == graph[odb[oid].body[1]]
         IN [i \in 1..Len(ps) |-> HashObject("commit", <<ps[i]>>)]

(***************************************************************************)
(* Bounds of the heads model.                                              *)
(***************************************************************************)
MaxTipParents == 2

Commits == 1..4

CommitOid(c) == HashObject("commit", <<c>>)

BaseOdb == [o \in {CommitOid(c) : c \in Commits} |->
              [type |-> "commit",
               body |-> <<CHOOSE c \in Commits : CommitOid(c) = o>>]]

\* commit graphs the sessions run against
Graphs == { <<<<>>, <<1>>, <<2>>, <<3>>>>,
            <<<<2>>, <<3>>, <<4>>, <<>>>>,
            <<<<>>, <<>>, <<1, 2>>, <<3>>>>,
            <<<<>>, <<4, 1>>, <<>>, <<3>>>> }

RECURSIVE SeqsUpTo(_, _)
SeqsUpTo(S, n) ==
    IF n = 0 THEN {<<>>}
    ELSE LET prev == SeqsUpTo(S, n - 1)
         IN prev \cup {Append(s, x) : s \in {t \in prev : Len(t) = n - 1}, x \in S}

(***************************************************************************)
(* struct oid_array.                                                       *)
(***************************************************************************)
oid_array_insert(array, index, oid) ==
    SubSeq(array, 1, index) \o <<oid>> \o SubSeq(array, index + 1, Len(array))

oid_array_remove(array, index) ==
    SubSeq(array, 1, index) \o SubSeq(array, index + 2, Len(array))

\* the bisection loop of oid_array_lookup on table[lo .. hi-1], first probe mi
RECURSIVE Bisect(_, _, _, _, _)
Bisect(table, oid, lo, hi, mi) ==
    IF table[mi + 1] = oid THEN mi
    ELSE LET nhi == IF table[mi + 1] > oid THEN mi ELSE hi
             nlo == IF table[mi + 1] > oid THEN lo ELSE mi + 1
         IN IF nlo < nhi
            THEN Bisect(table, oid, nlo, nhi, nlo + ((nhi - nlo) \div 2))
            ELSE (-nlo) - 1

\* oid_array_lookup with .sorted set: no sort, the first probe interpolated
\* between the first and the last element; -pos-1 when the oid is not found
oid_array_lookup(table, oid) ==
    LET nr == Len(table)
    IN IF nr = 0 THEN -1
       ELSE IF nr = 1 THEN Bisect(table, oid, 0, 1, 0)
       ELSE IF oid < table[1] THEN -1
       ELSE IF table[nr] < oid THEN (-nr) - 1
       ELSE IF table[1] # table[nr]
            THEN Bisect(table, oid, 0, nr,
                        ((nr - 1) * (oid - table[1])) \div (table[nr] - table[1]))
            ELSE Bisect(table, oid, 0, nr, 0)

RECURSIVE RemoveParents(_, _)
RemoveParents(array, parents) ==
    IF parents = <<>> THEN array
    ELSE LET pos == oid_array_lookup(array, Head(parents))
         IN RemoveParents(IF pos >= 0 THEN oid_array_remove(array, pos) ELSE array,
                          Tail(parents))

\* add_head once ensure_heads has returned and the commit is parsed
add_head_parsed(array, oid, parents) ==
    LET removed == RemoveParents(array, parents)
        pos == oid_array_lookup(removed, oid)
    IN IF pos >= 0 THEN removed ELSE oid_array_insert(removed, (-pos) - 1, oid)

add_head(array, oid) == add_head_parsed(array, oid, CommitParents(oid))

\* the loop of ensure_heads over the parents of the ref tip
RECURSIVE LoadHeads(_, _, _)
LoadHeads(array, parents, first) ==
    IF parents = <<>> THEN array
    ELSE LET p == Head(parents)
             next ==
                IF first /\ heads_kind = "manifest" /\ tip.flat THEN array
                ELSE IF array = <<>> \/ array[Len(array)] # p
                     THEN oid_array_insert(array, Len(array), p)
                     ELSE add_head(array, p)
         IN LoadHeads(next, Tail(parents), FALSE)

ensure_heads(array, sorted) ==
    IF sorted THEN array
    ELSE LoadHeads(array,
                   IF tip.exists
                   THEN [i \in 1..Len(tip.parents) |-> CommitOid(tip.parents[i])]
                   ELSE <<>>,
                   TRUE)

(***************************************************************************)
(* The pack being written and the tail window hashwrite keeps over it.     *)
(***************************************************************************)
\* the_hash_algo->rawsz, the 20 of hashwrite
HashSz == 20

\* packed_git_window_size (core.packedGitWindowSize), scaled down
WindowSize == 32

\* the size of the hashfile's write buffer, scaled down
HashfileBufferSize == 16

\* the value of a byte no write put there (fresh xmalloc, a mapping past the
\* end of the file)
Junk == 0

\* the byte the session writes at position pos of pack number id
PackByte(id, pos) == 1 + ((pos + 3 * id) % 7)

NoPack ==
    [pack_id |-> 0, pack_size |-> 0, hf_offset |-> 0,
     pack_data |-> FALSE, windows |-> FALSE, pd_pack_size |-> 0,
     pack_win |-> FALSE, offset |-> 0, len |-> 0,
     base |-> [i \in 0..(WindowSize + HashSz - 1) |-> Junk],
     prev_win |-> FALSE, prev_offset |-> 0, prev_len |-> 0,
     slides |-> 0, fault |-> "none"]

\* the bytes of the pack file on disk: what the hashfile has flushed
FileByte(p, file_len, pos) ==
    IF 0 <= pos /\ pos < file_len THEN PackByte(p.pack_id, pos) ELSE Junk

\* use_pack(pack_data, &prev_win, offset, NULL): a window of the file, at most
\* packed_git_window_size long
use_pack_len(pd_pack_size, offset) ==
    IF pd_pack_size - offset > WindowSize THEN WindowSize ELSE pd_pack_size - offset

\* the slide of hashwrite to a multiple of the window size
hashwrite_offset_multiple(pd_pack_size) ==
    ((pd_pack_size - HashSz) \div WindowSize) * WindowSize

\* the slide of hashwrite (the else branch), pack_size being
\* pack_data->pack_size after the write
hashwrite_offset(pd_pack_size) ==
    ((pd_pack_size - HashSz) \div WindowSize) * WindowSize - HashSz

\* pack_data->pack_size after a write: set to the window's length when the
\* window is attached to the descriptor, and grown by every write
pack_data_pack_size_grown_only(p, w_len, count) ==
    IF p.pack_data THEN p.pd_pack_size + count ELSE p.pd_pack_size

pack_data_pack_size(p, w_len, count) ==
    LET size0 == IF p.pack_data /\ ~p.windows THEN w_len ELSE p.pd_pack_size
    IN IF p.pack_data THEN size0 + count ELSE size0

\* the window size of hashwrite with the 20 added whatever the offset
hashwrite_window_size_padded(w_offset) == WindowSize + HashSz

\* window_size of hashwrite: a window that slid holds 20 bytes of overlap
hashwrite_window_size(w_offset) ==
    WindowSize + (IF w_offset # 0 THEN HashSz ELSE 0)

\* the memcpy calls of hashwrite(pack_file, buf, count): n bytes from
\* position `from` of a source of src_len bytes to position `to` of
\* pack_win->base
hashwrite_memcpy(p, count) ==
    LET w_offset == IF p.pack_win THEN p.offset ELSE 0
        w_len == IF p.pack_win THEN p.len ELSE HashSz
        size1 == pack_data_pack_size(p, w_len, count)
    IN IF hashwrite_window_size(w_offset) + HashSz - w_len > count
       THEN <<[src |-> "buf", src_len |-> count, from |-> 0,
               to |-> w_len - HashSz, n |-> count, pack_size |-> p.pack_size]>>
       ELSE LET offset == hashwrite_offset(size1)
                len == size1 - offset
            IN <<[src |-> "prev_win",
                  src_len |-> use_pack_len(size1, offset + HashSz - WindowSize),
                  from |-> WindowSize - HashSz, to |-> 0, n |-> HashSz,
                  pack_size |-> p.pack_size],
                 [src |-> "buf", src_len |-> count,
                  from |-> count + 2 * HashSz - len, to |-> HashSz,
                  n |-> len - 2 * HashSz, pack_size |-> p.pack_size]>>

\* hashwrite(pack_file, buf, count): buf holds the bytes that go to
\* positions pack_size .. pack_size + count - 1 of the pack
hashwrite(p, count) ==
    LET w_offset == IF p.pack_win THEN p.offset ELSE 0
        w_len == IF p.pack_win THEN p.len ELSE HashSz
        w_base == IF p.pack_win THEN p.base
                  ELSE [i \in 0..(WindowSize + HashSz - 1) |-> Junk]
        attach == p.pack_data /\ ~p.windows
        size1 == pack_data_pack_size(p, w_len, count)
        buf(i) == IF 0 <= i /\ i < count
                  THEN PackByte(p.pack_id, p.pack_size + i) ELSE Junk
        window_size == hashwrite_window_size(w_offset)
    IN IF window_size + HashSz - w_len > count
       THEN LET at == w_len - HashSz
            IN [p EXCEPT !.pack_win = TRUE, !.offset = w_offset,
                         !.len = w_len + count,
                         !.base = [i \in DOMAIN w_base |->
                                     IF at <= i /\ i < at + count
                                     THEN buf(i - at) ELSE w_base[i]],
                         !.windows = p.windows \/ attach,
                         !.pd_pack_size = size1,
                         !.pack_size = p.pack_size + count,
                         !.hf_offset = (p.hf_offset + count) % HashfileBufferSize,
                         !.fault = IF p.fault = "none" /\ at + count > WindowSize + HashSz
                                   THEN "overflow" ELSE p.fault]
       ELSE LET offset == hashwrite_offset(size1)
                len == size1 - offset
                file_len == p.pack_size + count
                prev_offset == offset + HashSz - WindowSize
                prev_len == use_pack_len(size1, prev_offset)
                from == count + 2 * HashSz - len
            IN [p EXCEPT !.pack_win = TRUE, !.offset = offset, !.len = len,
                         !.base = [i \in DOMAIN w_base |->
                                     IF i < HashSz
                                     THEN FileByte(p, file_len,
                                                   prev_offset + WindowSize - HashSz + i)
                                     ELSE IF i < len - HashSz
                                     THEN buf(from + i - HashSz)
                                     ELSE w_base[i]],
                         !.windows = p.windows \/ attach,
                         !.pd_pack_size = size1,
                         !.pack_size = p.pack_size + count,
                         !.hf_offset = 0,
                         !.prev_win = TRUE, !.prev_offset = prev_offset,
                         !.prev_len = prev_len,
                         !.slides = IF p.slides < 2 THEN p.slides + 1 ELSE p.slides,
                         !.fault =
                            IF p.fault # "none" THEN p.fault
                            ELSE IF ~p.pack_data THEN "null pack_data"
                            ELSE IF offset = w_offset THEN "assert offset"
                            ELSE IF prev_len # WindowSize THEN "assert prev_win"
                            ELSE IF from < 0 \/ len - HashSz > WindowSize + HashSz
                                 THEN "overflow"
                            ELSE "none"]

\* start_packfile: a new pack_data, no window yet, then the 12 byte pack
\* header goes through hashwrite.  early: pack_data is already set when the
\* header is written.
start_packfile(p, early) ==
    LET fresh == [NoPack EXCEPT !.pack_id = p.pack_id, !.pack_data = early,
                                !.fault = p.fault]
    IN [hashwrite(fresh, 12) EXCEPT !.pack_data = TRUE]

\* end_packfile: prev_win is unused, pack_win is unlinked and freed
end_packfile(p) ==
    [NoPack EXCEPT !.pack_id = p.pack_id, !.fault = p.fault]

find_pack_entry_one_any_pack(oid) ==
    IF oid \in DOMAIN object_table /\ object_table[oid].offset > 1
    THEN object_table[oid].offset
    ELSE 0

\* find_pack_entry_one(sha1, pack_data)
find_pack_entry_one(oid) ==
    IF /\ oid \in DOMAIN object_table
       /\ object_table[oid].offset > 1
       /\ object_table[oid].pack_id = pack.pack_id
    THEN object_table[oid].offset
    ELSE 0

(***************************************************************************)
(* The heads sets on their own: the initial load and add_head.             *)
(***************************************************************************)
Tips == {[exists |-> FALSE, parents |-> <<>>, flat |-> FALSE]} \cup
        {[exists |-> TRUE, parents |-> ps, flat |-> f] :
            ps \in SeqsUpTo(Commits, MaxTipParents), f \in BOOLEAN}

InitHeads ==
    /\ odb = BaseOdb
    /\ graph \in Graphs
    /\ tip \in Tips
    /\ heads_kind \in {"changeset", "manifest"}
    /\ heads = <<>>
    /\ heads_sorted = FALSE
    /\ pack = NoPack
    /\ object_table = <<>>
    /\ stored = <<>>
    /\ hg2git = <<>> /\ git2hg = <<>> /\ files_meta = <<>>
    /\ last_file = NoFile
    /\ probe = NoProbe
    /\ last_manifest = NoManifest
    /\ experiments = FALSE
    /\ cg = NoChangegroup
    /\ InitSession
    /\ last = [op |-> "init", status |-> "ok"]

\* ensure_heads called on its own (the helper's heads command)
EnsureHeads ==
    /\ ~heads_sorted
    /\ heads' = ensure_heads(heads, heads_sorted)
    /\ heads_sorted' = TRUE
    /\ last' = [op |-> "ensure_heads", status |-> "ok"]
    /\ UNCHANGED <<odb, graph, tip, heads_kind, packVars, noteVars, last_file, probe, manifestVars, cg, sessionVars>>

AddHead(oid) ==
    /\ oid_object_info(oid) = "commit"
    /\ heads' = add_head(ensure_heads(heads, heads_sorted), oid)
    /\ heads_sorted' = TRUE
    /\ last' = [op |-> "add_head", status |-> "ok", oid |-> oid]
    /\ UNCHANGED <<odb, graph, tip, heads_kind, packVars, noteVars, last_file, probe, manifestVars, cg, sessionVars>>

NextHeads ==
    \/ EnsureHeads
    \/ \E oid \in DOMAIN odb : AddHead(oid)

SpecHeads == InitHeads /\ [][NextHeads]_vars

(***************************************************************************)
(* Properties of the heads sets.                                           *)
(***************************************************************************)
InHeads(oid) == \E i \in 1..Len(heads) : heads[i] = oid

StrictlyAscending(array) ==
    \A i \in 1..Len(array) : \A j \in 1..Len(array) : i < j => array[i] < array[j]

RECURSIVE AncestorsWithin(_, _)
AncestorsWithin(oid, depth) ==
    IF depth = 0 THEN {}
    ELSE LET ps == {CommitParents(oid)[i] : i \in 1..Len(CommitParents(oid))}
         IN ps \cup UNION {AncestorsWithin(p, depth - 1) : p \in ps}

Ancestors(oid) == AncestorsWithin(oid, Cardinality(Commits))

\* C3: after add_head(heads, c) returns, c is a member of the heads set and
\* no parent of c is a member.
C3_AddHeadPost ==
    last.op = "add_head" =>
        /\ InHeads(last.oid)
        /\ \A i \in 1..Len(CommitParents(last.oid)) : ~InHeads(CommitParents(last.oid)[i])

\* C4: after every operation on a heads set (the initial load by ensure_heads,
\* whatever the order of the tip's parents, and every add_head) its elements
\* are in strictly ascending oid order, without duplicates.
C4_HeadsAscending == heads_sorted => StrictlyAscending(heads)

\* C5: in every reachable state no element of a heads set is an ancestor of
\* another element, whatever the order in which commits are added.
C5_NoAncestorInHeads ==
    \A i \in 1..Len(heads) : \A j \in 1..Len(heads) :
        i # j => heads[j] \notin Ancestors(heads[i])

\* the same, for the sessions whose ref tip lists its parents in ascending order
\* and whose heads array is therefore a sorted one
TipAscending ==
    StrictlyAscending(IF heads_kind = "manifest" /\ tip.flat /\ tip.parents # <<>>
                      THEN Tail(tip.parents) ELSE tip.parents)


(***************************************************************************)
(* The pack on its own: objects stored through store_object.               *)
(***************************************************************************)
MAX_PACK_ID == 65535

\* max_packsize (pack.packSizeLimit), scaled down: a larger pack is cycled
MaxPackSize == 150

\* how many times a session cycles its pack, at most
MaxCycles == 1

PackOids == 1..5

\* the objects that an older pack of the repository already holds
InOlderPack == {5}

\* (header length, deflated length) of the objects a session stores
ObjectSizes == {<<1, 3>>, <<2, 17>>, <<1, 20>>, <<2, 33>>, <<2, 70>>}

\* cycle_packfile: end_packfile, pack_id++, start_packfile
cycle_packfile(p, early) ==
    start_packfile([end_packfile(p) EXCEPT !.pack_id = p.pack_id + 1], early)

InitPack ==
    /\ odb = BaseOdb
    /\ graph \in {CHOOSE g \in Graphs : TRUE}
    /\ tip = [exists |-> FALSE, parents |-> <<>>, flat |-> FALSE]
    /\ heads_kind = "manifest"
    /\ heads = <<>>
    /\ heads_sorted = FALSE
    /\ \E early \in BOOLEAN : pack = start_packfile(NoPack, early)
    /\ object_table = <<>>
    /\ stored = <<>>
    /\ hg2git = <<>> /\ git2hg = <<>> /\ files_meta = <<>>
    /\ last_file = NoFile
    /\ probe = NoProbe
    /\ last_manifest = NoManifest
    /\ experiments = FALSE
    /\ cg = NoChangegroup
    /\ InitSession
    /\ last = [op |-> "init", status |-> "ok"]

\* store_object finds the object in its table, or in another pack: nothing
\* is written
StoreDuplicate(oid) ==
    /\ pack.fault = "none"
    /\ \/ oid \in DOMAIN object_table /\ object_table[oid].offset # 0
       \/ oid \notin DOMAIN object_table /\ oid \in InOlderPack
    /\ object_table' = IF oid \in DOMAIN object_table THEN object_table
                       ELSE Put(object_table, oid,
                                [offset |-> 1, pack_id |-> MAX_PACK_ID])
    /\ last' = [op |-> "store_object", status |-> "ok", oid |-> oid, wrote |-> FALSE]
    /\ UNCHANGED <<odb, headVars, pack, stored, noteVars, last_file, probe, manifestVars, cg, sessionVars>>

\* what the tail window and the pack descriptor hold between two writes
Between(p) ==
    [attached |-> p.pack_data /\ p.windows, offset |-> p.offset, len |-> p.len,
     pd_pack_size |-> p.pd_pack_size]

\* the writes of store_object into pack p0: the object's header, then its
\* deflated data
WriteObject(p0, oid, size) ==
    LET p1 == hashwrite(p0, size[1])
    IN /\ pack' = hashwrite(p1, size[2])
       /\ object_table' = Put(object_table, oid,
                              [offset |-> p0.pack_size, pack_id |-> p0.pack_id])
       /\ last' = [op |-> "store_object", status |-> "ok", oid |-> oid, wrote |-> TRUE,
                   between |-> <<Between(p0), Between(p1)>>,
                   memcpy |-> <<hashwrite_memcpy(p0, size[1]),
                                hashwrite_memcpy(p1, size[2])>>]

\* store_object writes a new object into the current pack
StoreObject(oid, size) ==
    /\ pack.fault = "none"
    /\ oid \notin DOMAIN object_table
    /\ oid \notin InOlderPack
    /\ pack.pack_size + size[2] + HashSz <= MaxPackSize
    /\ WriteObject(pack, oid, size)
    /\ stored' = Put(stored, oid, pack.pack_size)
    /\ UNCHANGED <<odb, headVars, noteVars, last_file, probe, manifestVars, cg, sessionVars>>

\* store_object cycles the pack that would grow past max_packsize, and
\* writes the new object into the next one
StoreObjectCycling(oid, size, early) ==
    /\ pack.fault = "none"
    /\ oid \notin DOMAIN object_table
    /\ oid \notin InOlderPack
    /\ pack.pack_size + size[2] + HashSz > MaxPackSize
    /\ pack.pack_id < MaxCycles
    /\ LET p0 == cycle_packfile(pack, early)
       IN /\ WriteObject(p0, oid, size)
          /\ stored' = Put(<<>>, oid, p0.pack_size)
    /\ UNCHANGED <<odb, headVars, noteVars, last_file, probe, manifestVars, cg, sessionVars>>

NextPack ==
    \/ \E oid \in PackOids : StoreDuplicate(oid)
    \/ \E oid \in PackOids : \E size \in ObjectSizes : StoreObject(oid, size)
    \/ \E oid \in PackOids : \E size \in ObjectSizes : \E early \in BOOLEAN :
          StoreObjectCycling(oid, size, early)

SpecPack == InitPack /\ [][NextPack]_vars

(***************************************************************************)
(* Properties of the tail window.                                          *)
(***************************************************************************)
\* C6: between any two writes to the pack, once the pack descriptor carries
\* the tail window, tail.offset + tail.len equals the descriptor's pack size.
TailCoversPackEnd(b) == b.attached => b.offset + b.len = b.pd_pack_size

C6_TailCoversPackEnd ==
    /\ TailCoversPackEnd(Between(pack))
    /\ (last.op = "store_object" /\ last.wrote) =>
          \A i \in 1..Len(last.between) : TailCoversPackEnd(last.between[i])

C6_Witness ==
    /\ pack.pack_data /\ pack.windows /\ pack.fault = "none"
    /\ pack.slides = 2
    /\ pack.offset > 0
    /\ last.op = "store_object" /\ last.wrote

\* C7: until the pack is finalized, a lookup in the pack being written
\* returns, for every object stored into it, the offset it was written at, and
\* 0 for every other object; and every byte of the pack is either in the tail
\* window's buffer, with the value written at that position, or in the file,
\* flushed before the window moved past it.
C7_ReadBack ==
    /\ \A oid \in PackOids :
          find_pack_entry_one(oid) = IF oid \in DOMAIN stored THEN stored[oid] ELSE 0
    /\ \A pos \in 0..(pack.pack_size - 1) :
          IF pos >= pack.offset
          THEN pack.base[pos - pack.offset] = PackByte(pack.pack_id, pos)
          ELSE pos < pack.pack_size - pack.hf_offset
    /\ \A oid \in DOMAIN stored : 1 < stored[oid] /\ stored[oid] < pack.pack_size

C7_Witness ==
    /\ pack.slides > 0 /\ pack.pack_id > 0 /\ pack.fault = "none"
    /\ \E a \in DOMAIN stored : stored[a] < pack.offset
    /\ \E b \in DOMAIN stored : stored[b] >= pack.offset + HashSz
    /\ \E c \in DOMAIN object_table :
          object_table[c].pack_id = 0 /\ object_table[c].offset > 1

NoFault == pack.fault = "none"

\* C33: whatever the sizes written to the pack, every copy of hashwrite into
\* the buffer of the tail window stays inside its W + 20 bytes, every copy
\* reads inside its source, the bytes a slide copies from the write being
\* the last ones of the write and all the bytes of the pack from the
\* multiple of W the new window is aligned on (20 past its offset), which
\* lies inside the write, and the window a slide pins on the file is W long.
C33_CopiesInBounds ==
    /\ pack.fault \notin {"overflow", "assert prev_win", "null pack_data"}
    /\ (last.op = "store_object" /\ last.wrote) =>
          \A i \in 1..Len(last.memcpy) : \A j \in 1..Len(last.memcpy[i]) :
             LET c == last.memcpy[i][j]
                 w == IF i = 1 THEN last.between[2] ELSE Between(pack)
             IN /\ c.n >= 0
                /\ 0 <= c.to /\ c.to + c.n <= WindowSize + HashSz
                /\ 0 <= c.from /\ c.from + c.n <= c.src_len
                /\ c.src = "prev_win" => c.src_len = WindowSize
                /\ (c.src = "buf" /\ Len(last.memcpy[i]) = 2) =>
                      /\ c.from + c.n = c.src_len
                      /\ w.offset + HashSz >= c.pack_size
                      /\ w.offset + HashSz + c.n = c.pack_size + c.src_len

\* the data of an object, longer than the window, slid a tail window that
\* had slid before, the new window starting inside the data
C33_Witness ==
    /\ last.op = "store_object" /\ last.wrote /\ pack.fault = "none"
    /\ pack.slides = 2 /\ last.between[2].offset # 0
    /\ Len(last.memcpy[1]) = 1 /\ Len(last.memcpy[2]) = 2
    /\ last.memcpy[2][2].src_len > WindowSize
    /\ last.memcpy[2][2].from > 0

\* what the tail window is after each write of the step, the pack as the
\* step found it (or started it) first
WindowsOfStep == last'.between \o <<Between(pack')>>

\* the i-th write of the step slid the tail window
Slid(i) == WindowsOfStep[i + 1].offset # WindowsOfStep[i].offset

\* C27 as stated: the offset of a tail window that slid is the largest
\* multiple of the window size below the size of the pack minus 20
C27_SlideToMultiple ==
    [][(last'.op = "store_object" /\ last'.wrote) =>
          \A i \in 1..2 :
             Slid(i) =>
                LET b == WindowsOfStep[i + 1]
                IN /\ b.offset % WindowSize = 0
                   /\ b.offset < b.pd_pack_size - HashSz
                   /\ b.offset + WindowSize >= b.pd_pack_size - HashSz]_vars

\* C27, as the code has it: the offset of a tail window that slid is 20 below
\* the largest multiple of the window size that is not above the size of the
\* pack minus 20, the size being the one of the pack descriptor after the
\* write (20 more than what was written); no slide leaves the offset where
\* it was
C27_SlideToMultipleLessOverlap ==
    [][(last'.op = "store_object" /\ last'.wrote) =>
          /\ pack'.fault # "assert offset"
          /\ \A i \in 1..2 :
                Slid(i) =>
                   LET b == WindowsOfStep[i + 1]
                   IN /\ (b.offset + HashSz) % WindowSize = 0
                      /\ b.offset + HashSz <= b.pd_pack_size - HashSz
                      /\ b.offset + HashSz + WindowSize > b.pd_pack_size - HashSz
                      /\ i = 2 => b.pd_pack_size = pack'.pack_size + HashSz]_vars

\* the data of an object slides a window that the header of an object
\* before it had slid already
C27_Witness ==
    /\ last.op = "store_object" /\ last.wrote /\ pack.fault = "none"
    /\ pack.slides = 2
    /\ last.between[2].offset # pack.offset
    /\ last.between[2].offset # 0


(***************************************************************************)
(* Delta bases: the reference hg_file_store and store_git_tree hand to     *)
(* store_object.                                                           *)
(***************************************************************************)
\* no reference is given, or find_object knows no entry for it
NoReference == 0

\* the struct last_object built whatever pack the reference's entry is in
last_object_any_pack(reference) ==
    IF reference \in DOMAIN object_table /\ object_table[reference].offset > 1
    THEN [has_data |-> TRUE, offset |-> object_table[reference].offset]
    ELSE [has_data |-> FALSE, offset |-> 0]

\* the struct last_object of hg_file_store and store_git_tree: the data and
\* the offset of the reference when its entry is in the current pack, the
\* initializer { STRBUF_INIT, 0, 0, 1 } or no last_object otherwise
last_object(reference) ==
    IF /\ reference \in DOMAIN object_table
       /\ object_table[reference].offset > 1
       /\ object_table[reference].pack_id = pack.pack_id
    THEN [has_data |-> TRUE, offset |-> object_table[reference].offset]
    ELSE [has_data |-> FALSE, offset |-> 0]

\* the offsets store_object may record as delta base: none without data to
\* delta against, none when it cycles the pack before writing, and none
\* when the delta is not worth it
delta_bases(last_obj, cycles) ==
    IF last_obj.has_data /\ ~cycles THEN {0, last_obj.offset} ELSE {0}

\* store_object(type, dat, last) writes a new blob or tree into the current
\* pack, or into the next one when the current one would grow past
\* max_packsize
StoreReferenced(oid, size, reference, early) ==
    /\ pack.fault = "none"
    /\ oid \notin DOMAIN object_table
    /\ oid \notin InOlderPack
    /\ LET cycles == pack.pack_size + size[2] + HashSz > MaxPackSize
           p0 == IF cycles THEN cycle_packfile(pack, early) ELSE pack
       IN /\ cycles => pack.pack_id < MaxCycles
          /\ ~cycles => ~early
          /\ \E base \in delta_bases(last_object(reference), cycles) :
                /\ pack' = hashwrite(hashwrite(p0, size[1]), size[2])
                /\ object_table' = Put(object_table, oid,
                                       [offset |-> p0.pack_size, pack_id |-> p0.pack_id])
                /\ stored' = Put(IF cycles THEN <<>> ELSE stored, oid, p0.pack_size)
                /\ last' = [op |-> "store_object", status |-> "ok", oid |-> oid,
                            wrote |-> TRUE, reference |-> reference, base |-> base]
    /\ UNCHANGED <<odb, headVars, noteVars, last_file, probe, manifestVars, cg, sessionVars>>

\* the blobs and trees of the sessions, the last one held by an older pack
DeltaOids == {1, 2, 3} \cup InOlderPack

\* (header length, deflated length) of the blobs and trees
DeltaSizes == {<<1, 20>>, <<2, 70>>}

NextDelta ==
    \/ \E oid \in DeltaOids : StoreDuplicate(oid)
    \/ \E oid \in DeltaOids : \E size \in DeltaSizes :
          \E reference \in DeltaOids \cup {NoReference} : \E early \in BOOLEAN :
              StoreReferenced(oid, size, reference, early)

SpecDelta == InitPack /\ [][NextDelta]_vars

\* an object has just been written with a delta base
Deltified(l) == l.op = "store_object" /\ l.wrote /\ l.base # 0

\* C28: a previously stored object is the delta base of a new blob or tree
\* only if its entry has an offset above 1 and the pack id of the pack the
\* new object is written to; an object written after the pack was cycled, or
\* with a reference known only from an older pack, has no delta base.
C28_DeltaBaseInCurrentPack ==
    [][/\ Deltified(last') =>
             /\ last'.reference \in DOMAIN object_table
             /\ object_table[last'.reference].offset > 1
             /\ object_table[last'.reference].pack_id = pack.pack_id
             /\ pack'.pack_id = pack.pack_id
             /\ last'.base = object_table[last'.reference].offset
       /\ (last'.op = "store_object" /\ last'.wrote
           /\ last'.reference \in DOMAIN object_table
           /\ \/ object_table[last'.reference].pack_id # pack'.pack_id
              \/ object_table[last'.reference].offset <= 1) => last'.base = 0]_vars

\* in the second pack of a session an object is written with a delta base,
\* while the first pack's objects are still in the table
C28_Witness ==
    /\ Deltified(last)
    /\ pack.pack_id = 1
    /\ pack.fault = "none"
    /\ \E oid \in DOMAIN object_table : object_table[oid].pack_id = 0
    /\ \E oid \in DOMAIN object_table : object_table[oid].pack_id = MAX_PACK_ID

(***************************************************************************)
(* The notes trees and the `set` command.                                  *)
(***************************************************************************)
\* how many NUL bytes a commit of the sessions carries, at most
MaxNuls == 2

\* how many commands a session runs, at most
MaxCommands == 3

\* the Mercurial nodes the commands name
HgNodes == {1, 2}

\* the first token of a git2hg metadata blob, "changeset "
ChangesetTag == 4

MetadataBlob(hg_id) == <<ChangesetTag, hg_id>>

BlobOid(body) == HashObject("blob", body)

\* the blobs the repository holds when the session starts: the metadata of
\* both changesets, and a file
BaseBlobs == {MetadataBlob(h) : h \in HgNodes} \cup {<<1>>}

\* the commits the `set` commands name
NotesCommits == {1, 2}

NotesOdb ==
    [o \in {CommitOid(c) : c \in NotesCommits} \cup {BlobOid(b) : b \in BaseBlobs} |->
        IF o \in DOMAIN BaseOdb THEN BaseOdb[o]
        ELSE [type |-> "blob", body |-> CHOOSE b \in BaseBlobs : BlobOid(b) = o]]

\* an oid no object of the repository has
MissingOid == HashObject("tree", <<>>)

SetKinds == {"file", "manifest", "changeset", "changeset-metadata", "file-meta"}

\* the test handle_changeset_conflict makes on the content of a git2hg note:
\* long enough, starting with "changeset ", followed by a hex node
ValidNote(content) ==
    /\ Len(content) >= 2
    /\ content[1] = ChangesetTag
    /\ content[2] \in HgNodes \cup {NullHgOid}

\* the loop of handle_changeset_conflict: notes is git2hg, db the object
\* database, buf the strbuf; the result carries the final git_id
RECURSIVE ConflictLoop(_, _, _, _, _)
ConflictLoop(notes, db, hg_id, git_id, buf) ==
    IF git_id \notin DOMAIN notes
    THEN [status |-> "ok", git_id |-> git_id, odb |-> db]
    ELSE LET content == db[notes[git_id]].body
         IN IF ~ValidNote(content)
            THEN [status |-> "fatal", msg |-> "Invalid git2hg note",
                  git_id |-> git_id, odb |-> db]
            ELSE IF content[2] = hg_id
            THEN [status |-> "ok", git_id |-> git_id, odb |-> db]
            ELSE LET buf1 == (IF buf = <<>> THEN db[git_id].body ELSE buf) \o <<NUL>>
                     new == HashObject("commit", buf1)
                 IN IF Len(buf1) > 1 + MaxNuls
                    THEN [status |-> "bound", git_id |-> git_id, odb |-> db]
                    ELSE ConflictLoop(notes, Put(db, new, [type |-> "commit", body |-> buf1]),
                                      hg_id, new, buf1)

\* the same without the loop: the oid is recorded as given
handle_changeset_conflict_none(notes, db, hg_id, git_id) ==
    [status |-> "ok", git_id |-> git_id, odb |-> db]

\* the same, stopping at an oid that git2hg binds, whatever changeset the
\* note names
handle_changeset_conflict_once(notes, db, hg_id, git_id) ==
    IF git_id \notin DOMAIN notes \/ ~ValidNote(db[notes[git_id]].body)
       \/ db[notes[git_id]].body[2] = hg_id
    THEN ConflictLoop(notes, db, hg_id, git_id, <<>>)
    ELSE LET buf1 == db[git_id].body \o <<NUL>>
             new == HashObject("commit", buf1)
         IN IF Len(buf1) > 1 + MaxNuls
            THEN [status |-> "bound", git_id |-> git_id, odb |-> db]
            ELSE [status |-> "ok", git_id |-> new,
                  odb |-> Put(db, new, [type |-> "commit", body |-> buf1])]

handle_changeset_conflict(notes, db, hg_id, git_id) ==
    ConflictLoop(notes, db, hg_id, git_id, <<>>)

\* the state do_set works on, and what it leaves
SetState ==
    [status |-> "ok", msg |-> "", odb |-> odb, hg2git |-> hg2git, git2hg |-> git2hg,
     files_meta |-> files_meta, heads |-> heads, heads_sorted |-> heads_sorted,
     dirty |-> dirty, git_id |-> NullOid]

Die(st, msg) == [st EXCEPT !.status = "fatal", !.msg = msg]

\* do_set for the kind changeset-metadata: the key is the commit of hg_id
do_set_metadata(st, hg_id, git_id) ==
    IF hg_id \in DOMAIN hg2git
    THEN LET note == hg2git[hg_id]
         IN IF git_id = NullOid
            THEN [st EXCEPT !.git2hg = Remove(git2hg, note), !.dirty["git2hg"] = TRUE]
            ELSE IF oid_object_info(git_id) # "blob"
            THEN Die(st, "Invalid object")
            ELSE [st EXCEPT !.git2hg = Put(git2hg, note, git_id),
                            !.dirty["git2hg"] = TRUE]
    ELSE IF git_id # NullOid THEN Die(st, "Invalid sha1") ELSE st

\* do_set for the kinds kept in hg2git
do_set_hg2git(st, kind, hg_id, git_id) ==
    LET type == IF kind = "file" THEN "blob" ELSE "commit"
    IN IF git_id = NullOid
       THEN [st EXCEPT !.hg2git = Remove(hg2git, hg_id), !.dirty["hg2git"] = TRUE]
       ELSE IF oid_object_info(git_id) # type
       THEN Die(st, "Invalid object")
       ELSE LET c == IF kind = "changeset"
                     THEN handle_changeset_conflict(git2hg, odb, hg_id, git_id)
                     ELSE [status |-> "ok", git_id |-> git_id, odb |-> odb]
            IN IF c.status # "ok"
               THEN [st EXCEPT !.status = c.status,
                               !.msg = IF c.status = "fatal" THEN c.msg ELSE ""]
               ELSE [st EXCEPT !.odb = c.odb,
                               !.git_id = c.git_id,
                               !.hg2git = Put(hg2git, hg_id, c.git_id),
                               !.dirty["hg2git"] = TRUE,
                               !.heads = IF kind = "manifest"
                                         THEN add_head(ensure_heads(heads, heads_sorted),
                                                       c.git_id)
                                         ELSE heads,
                               !.heads_sorted = heads_sorted \/ kind = "manifest"]

\* do_set_files_meta without the test of the object's type
do_set_files_meta_untyped(st, hg_id, git_id) ==
    IF git_id = NullOid
    THEN [st EXCEPT !.files_meta = Remove(files_meta, hg_id),
                    !.dirty["files-meta"] = TRUE]
    ELSE [st EXCEPT !.files_meta = Put(files_meta, hg_id, git_id),
                    !.dirty["files-meta"] = TRUE]

\* do_set for the kind file-meta
do_set_files_meta(st, hg_id, git_id) ==
    IF git_id = NullOid
    THEN [st EXCEPT !.files_meta = Remove(files_meta, hg_id),
                    !.dirty["files-meta"] = TRUE]
    ELSE IF oid_object_info(git_id) # "blob"
    THEN Die(st, "Invalid object")
    ELSE [st EXCEPT !.files_meta = Put(files_meta, hg_id, git_id),
                    !.dirty["files-meta"] = TRUE]

do_set(kind, hg_id, git_id) ==
    IF kind \notin SetKinds THEN Die(SetState, "Unknown kind of object")
    ELSE IF kind = "changeset-metadata" THEN do_set_metadata(SetState, hg_id, git_id)
    ELSE IF kind = "file-meta" THEN do_set_files_meta(SetState, hg_id, git_id)
    ELSE do_set_hg2git(SetState, kind, hg_id, git_id)

Alive == last.status = "ok"

\* the command `set kind hg_id git_id`
Set(kind, hg_id, git_id) ==
    /\ Alive
    /\ last.n < MaxCommands
    /\ LET st == do_set(kind, hg_id, git_id)
       IN /\ st.status # "bound"
          /\ odb' = st.odb
          /\ hg2git' = st.hg2git
          /\ git2hg' = st.git2hg
          /\ files_meta' = st.files_meta
          /\ dirty' = st.dirty
          /\ heads' = st.heads
          /\ heads_sorted' = st.heads_sorted
          /\ last' = IF st.status = "ok" /\ kind = "changeset"
                      THEN [op |-> "set", status |-> st.status, msg |-> st.msg,
                            n |-> last.n + 1, kind |-> kind, hg_id |-> hg_id,
                            git_id |-> git_id]
                      ELSE [op |-> "set", status |-> st.status, msg |-> st.msg,
                            n |-> last.n + 1, kind |-> kind, hg_id |-> NullHgOid,
                            git_id |-> NullOid]
    /\ UNCHANGED <<graph, tip, heads_kind, packVars, last_file, probe, manifestVars, cg,
                   shallow, manifest_tree, session>>

\* the notes trees are loaded from the repository on first use: a fresh
\* repository, or one that already holds a changeset
InitNotes ==
    \/ hg2git = <<>> /\ git2hg = <<>>
    \/ \E h \in HgNodes : \E c \in NotesCommits :
          /\ hg2git = Put(<<>>, h, CommitOid(c))
          /\ git2hg = Put(<<>>, CommitOid(c), BlobOid(MetadataBlob(h)))

Init ==
    /\ odb = NotesOdb
    /\ graph = <<<<>>, <<1>>, <<2>>, <<3>>>>
    /\ tip = [exists |-> TRUE, parents |-> <<1>>, flat |-> FALSE]
    /\ heads_kind = "manifest"
    /\ heads = <<>>
    /\ heads_sorted = FALSE
    /\ pack = NoPack
    /\ object_table = <<>>
    /\ stored = <<>>
    /\ InitNotes
    /\ files_meta = <<>>
    /\ last_file = NoFile
    /\ probe = NoProbe
    /\ last_manifest = NoManifest
    /\ experiments = FALSE
    /\ cg = NoChangegroup
    /\ InitSession
    /\ last = [op |-> "init", status |-> "ok", n |-> 0]

Next ==
    \E kind \in SetKinds : \E hg_id \in HgNodes :
        \E git_id \in DOMAIN odb \cup {NullOid, MissingOid} : Set(kind, hg_id, git_id)

Spec == Init /\ [][Next]_vars

(***************************************************************************)
(* Properties of the notes trees.                                          *)
(***************************************************************************)
\* the changeset a git2hg note names, NullHgOid when the commit has no note
\* or a note that is not changeset metadata
NoteOwner(notes, db, oid) ==
    IF oid \in DOMAIN notes /\ ValidNote(db[notes[oid]].body)
    THEN db[notes[oid]].body[2]
    ELSE NullHgOid

\* a successful `set changeset H G` with a non-null G has just been executed
SetChangesetDone(l) ==
    l.op = "set" /\ l.status = "ok" /\ l.kind = "changeset" /\ l.git_id # NullOid

\* C1: after any sequence of set and store commands hg2git is injective: no
\* two distinct Mercurial nodes are mapped to the same Git oid.
C1_Hg2gitInjective ==
    \A h1 \in DOMAIN hg2git : \A h2 \in DOMAIN hg2git :
        h1 # h2 => hg2git[h1] # hg2git[h2]

\* C1, as the code has it: when a successful `set changeset H G` returns, the
\* oid recorded in hg2git for H is not one that git2hg binds to the metadata
\* of another changeset.
C1_RecordedNotOwnedByOther ==
    SetChangesetDone(last) =>
        /\ last.hg_id \in DOMAIN hg2git
        /\ hg2git[last.hg_id] \in DOMAIN git2hg =>
              NoteOwner(git2hg, odb, hg2git[last.hg_id]) = last.hg_id

C1_Witness ==
    /\ SetChangesetDone(last)
    /\ hg2git[last.hg_id] # last.git_id
    /\ NoteOwner(git2hg, odb, last.git_id) \notin {NullHgOid, last.hg_id}
    /\ \E h \in DOMAIN hg2git : h # last.hg_id /\ hg2git[h] = last.git_id

RECURSIVE Nuls(_)
Nuls(k) == IF k = 0 THEN <<>> ELSE <<NUL>> \o Nuls(k - 1)

\* the oid of the commit whose content is that of git_id followed by k NULs
WithNuls(db, git_id, k) == HashObject("commit", db[git_id].body \o Nuls(k))

\* the oid has no git2hg entry, or one whose metadata names hg_id
UnusedOrOwn(notes, db, oid, hg_id) ==
    oid \notin DOMAIN notes \/ NoteOwner(notes, db, oid) = hg_id

\* C2: when `set changeset H G` is executed, the oid recorded in hg2git for H
\* is that of G's content followed by k NULs, k the smallest number for which
\* the oid has no git2hg entry or one naming H; the commits with 1 .. k NULs are
\* the only objects stored, so that nothing is stored when G is already bound
\* to H, and one NUL is appended when G is bound to another changeset and G
\* with one NUL is unused.
C2_SmallestNulCount ==
    [][SetChangesetDone(last') =>
          \E k \in 0..MaxNuls :
              /\ UnusedOrOwn(git2hg, odb', WithNuls(odb, last'.git_id, k), last'.hg_id)
              /\ \A j \in 0..(k - 1) :
                    ~UnusedOrOwn(git2hg, odb', WithNuls(odb, last'.git_id, j), last'.hg_id)
              /\ last'.hg_id \in DOMAIN hg2git'
              /\ hg2git'[last'.hg_id] = WithNuls(odb, last'.git_id, k)
              /\ DOMAIN odb' =
                    DOMAIN odb \cup {WithNuls(odb, last'.git_id, j) : j \in 1..k}
              /\ \A j \in 1..k :
                    odb'[WithNuls(odb, last'.git_id, j)] =
                       [type |-> "commit", body |-> odb[last'.git_id].body \o Nuls(j)]
              /\ \A o \in DOMAIN odb : odb'[o] = odb[o]
              /\ git2hg' = git2hg]_vars

C2_Witness ==
    /\ SetChangesetDone(last)
    /\ hg2git[last.hg_id] = WithNuls(odb, last.git_id, 2)
    /\ odb[last.git_id].body = <<1>>

(***************************************************************************)
(* The arguments of `set`, as do_set parses them.                          *)
(***************************************************************************)
\* an argument get_sha1_hex or get_oid_hex rejects
BadHex == -1

\* do_set from its argument list: the count, the kind, the two ids
do_set_args(args) ==
    IF Len(args) # 3 THEN Die(SetState, "set needs 3 arguments")
    ELSE IF args[1] \notin SetKinds THEN Die(SetState, "Unknown kind of object")
    ELSE IF args[2] = BadHex THEN Die(SetState, "Invalid sha1")
    ELSE IF args[3] = BadHex THEN Die(SetState, "Invalid sha1")
    ELSE do_set(args[1], args[2], args[3])

\* the argument lists of the `set` commands: three words, one too few, one
\* too many
SetArgs ==
    LET kinds == SetKinds \cup {"tree"}
        hgs == HgNodes \cup {BadHex}
        gits == DOMAIN odb \cup {NullOid, MissingOid, BadHex}
    IN {<<k, h, g>> : k \in kinds, h \in hgs, g \in gits}
           \cup {<<"file", 1>>, <<"file", 1, NullOid, NullOid>>}

\* the command `set` with any argument list
SetCommand(args) ==
    /\ Alive
    /\ last.n < MaxCommands
    /\ LET st == do_set_args(args)
       IN /\ st.status # "bound"
          /\ odb' = st.odb
          /\ hg2git' = st.hg2git
          /\ git2hg' = st.git2hg
          /\ files_meta' = st.files_meta
          /\ dirty' = st.dirty
          /\ heads' = st.heads
          /\ heads_sorted' = st.heads_sorted
          /\ last' = [op |-> "set", status |-> st.status, msg |-> st.msg,
                      n |-> last.n + 1, args |-> args]
    /\ UNCHANGED <<graph, tip, heads_kind, packVars, last_file, probe, manifestVars, cg,
                   shallow, manifest_tree, session>>

NextSetArgs == \E args \in SetArgs : SetCommand(args)

SpecSetArgs == Init /\ [][NextSetArgs]_vars

\* the type a kind declares for the Git object
DeclaredType(kind) == IF kind \in {"manifest", "changeset"} THEN "commit" ELSE "blob"

\* the argument list is one the command must reject
Malformed(args, db) ==
    IF Len(args) # 3 THEN TRUE
    ELSE IF args[1] \notin SetKinds \/ args[2] = BadHex \/ args[3] = BadHex THEN TRUE
    ELSE IF args[3] = NullOid THEN FALSE
    ELSE IF args[3] \notin DOMAIN db THEN TRUE
    ELSE db[args[3]].type # DeclaredType(args[1])

\* C25: `set` is fatal, and changes no notes tree and no heads set, when it
\* has other than 3 arguments, an unrecognized kind, an hg id or a Git id that
\* is not valid hex, or a non-null Git oid whose object is missing or of
\* another type than the kind declares.
C25_MalformedSetFatal ==
    [][last'.op = "set" /\ Malformed(last'.args, odb) =>
          /\ last'.status = "fatal"
          /\ UNCHANGED <<hg2git, git2hg, files_meta, heads, heads_sorted>>]_vars

\* a `set file-meta` naming a commit has been refused, with notes in place
C25_Witness ==
    /\ last.op = "set" /\ last.status = "fatal" /\ Len(last.args) = 3
    /\ last.args[1] = "file-meta"
    /\ last.args[2] # BadHex
    /\ last.args[3] \in DOMAIN odb
    /\ odb[last.args[3]].type = "commit"
    /\ last.msg = "Invalid object"
    /\ hg2git # <<>>

\* a successful `set K H G` has just been executed
SetDone(l, kind) ==
    l.op = "set" /\ l.status = "ok" /\ l.args[1] = kind

\* the heads array holds the oid
Holds(array, oid) == \E i \in 1..Len(array) : array[i] = oid

\* what a successful `set changeset-metadata H G` does: the key is hg2git[H]
MetadataUpsert ==
    LET H == last'.args[2]
        G == last'.args[3]
    IN /\ hg2git' = hg2git /\ files_meta' = files_meta /\ heads' = heads
       /\ IF H \in DOMAIN hg2git
          THEN IF G = NullOid THEN git2hg' = Remove(git2hg, hg2git[H])
               ELSE /\ odb[G].type = "blob"
                    /\ git2hg' = Put(git2hg, hg2git[H], G)
          ELSE G = NullOid /\ git2hg' = git2hg

\* what a successful `set file-meta H G` does
FilesMetaUpsert ==
    LET H == last'.args[2]
        G == last'.args[3]
    IN /\ hg2git' = hg2git /\ git2hg' = git2hg /\ heads' = heads
       /\ files_meta' = IF G = NullOid THEN Remove(files_meta, H)
                        ELSE Put(files_meta, H, G)

\* what a successful `set K H G` does for a kind of hg2git, the oid bound
\* being `bound`
Hg2gitUpsert(kind, bound) ==
    LET H == last'.args[2]
        G == last'.args[3]
    IN /\ git2hg' = git2hg /\ files_meta' = files_meta
       /\ hg2git' = IF G = NullOid THEN Remove(hg2git, H) ELSE Put(hg2git, H, bound)
       /\ IF kind = "manifest" /\ G # NullOid THEN Holds(heads', G)
          ELSE heads' = heads

\* C26: a successful `set K H G` removes H from the notes tree of K when G is
\* null and binds H to G when it is not, for manifest also adding G to
\* manifest_heads; for changeset-metadata the key is hg2git[H], and when H has
\* no hg2git entry a null G changes nothing.
C26_SetIsUpsert ==
    [][/\ SetDone(last', "changeset-metadata") => MetadataUpsert
       /\ SetDone(last', "file-meta") => FilesMetaUpsert
       /\ \A kind \in {"file", "manifest", "changeset"} :
             SetDone(last', kind) => Hg2gitUpsert(kind, last'.args[3])]_vars

\* C26, as the code has it: the same, but `set changeset H G` binds H to the
\* commit of G's content followed by NULs when git2hg binds G to the metadata
\* of another changeset, G itself otherwise.
C26_SetIsUpsertButConflicts ==
    [][/\ SetDone(last', "changeset-metadata") => MetadataUpsert
       /\ SetDone(last', "file-meta") => FilesMetaUpsert
       /\ \A kind \in {"file", "manifest"} :
             SetDone(last', kind) => Hg2gitUpsert(kind, last'.args[3])
       /\ SetDone(last', "changeset") =>
             \E k \in 0..MaxNuls :
                 /\ Hg2gitUpsert("changeset",
                                 IF last'.args[3] = NullOid THEN NullOid
                                 ELSE WithNuls(odb, last'.args[3], k))
                 /\ (k = 0) = (last'.args[3] = NullOid
                                 \/ NoteOwner(git2hg, odb, last'.args[3])
                                       \in {NullHgOid, last'.args[2]})]_vars

\* `set changeset H G` has bound H to another oid than G, after a `set
\* manifest` that replaced nothing
C26_Witness ==
    /\ SetDone(last, "changeset")
    /\ last.args[3] # NullOid
    /\ hg2git[last.args[2]] # last.args[3]
    /\ heads # <<>>
    /\ last.n >= 2

(***************************************************************************)
(* The file store: store_file, hg_file_store and the cached last file.     *)
(***************************************************************************)
\* The bytes of the files are 1 and 2; none of them starts a Mercurial
\* metadata header.
\* the length of a stored file, at most
MaxLen == 2

\* the largest start or end a diff carries
MaxPos == 2

\* the number of diffs of a chunk, at most
MaxDiffs == 2

\* how many commands a session of the file store runs, at most
MaxFileCommands == 3

Diffs == [start : 0..MaxPos, end : 0..MaxPos, data : {<<>>, <<2>>}]

\* struct rev_chunk, as rev_diff_iter_next hands out its diffs
Chunks == [node : HgNodes \cup {EmptyHgFile},
           delta_node : HgNodes \cup {NullHgOid},
           diffs : SeqsUpTo(Diffs, MaxDiffs)]

\* the files the repository holds when the session starts
FileBlobs == {<<1>>, <<1, 2>>}

FileOdb == [o \in {BlobOid(b) : b \in FileBlobs} |->
              [type |-> "blob", body |-> CHOOSE b \in FileBlobs : BlobOid(b) = o]]

\* file.buf + from .. file.buf + to - 1
Bytes(file, from, to) == SubSeq(file, from + 1, to)

\* hg_file_load: the content of the blob hg2git maps the node to; a node
\* without a note is fatal
hg_file_load(notes, db, node) ==
    IF node \in DOMAIN notes
    THEN [status |-> "ok", oid |-> node, file |-> db[notes[node]].body]
    ELSE [status |-> "fatal", oid |-> node, file |-> <<>>]

\* store_file's head without the release of last_file on a null delta node
delta_base_keeps_cache(cached, notes, db, delta_node) ==
    IF delta_node # cached.oid /\ delta_node # NullHgOid
    THEN hg_file_load(notes, db, delta_node)
    ELSE [status |-> "ok", oid |-> cached.oid, file |-> cached.file]

\* the head of store_file: last_file once the delta node is compared with
\* the cached one
delta_base(cached, notes, db, delta_node) ==
    IF delta_node # cached.oid
    THEN IF delta_node # NullHgOid
         THEN hg_file_load(notes, db, delta_node)
         ELSE [status |-> "ok", oid |-> NoFile.oid, file |-> NoFile.file]
    ELSE [status |-> "ok", oid |-> cached.oid, file |-> cached.file]

\* the test on a diff, without the comparison with the end of the diff before
diff_rejected_start_only(diff, len, last_end) == diff.start > len

\* the test store_file makes on a diff
diff_rejected(diff, len, last_end) == diff.start > len \/ diff.start < last_end

\* the loop of store_file over the diffs, and the tail copied after it
RECURSIVE ApplyDiffs(_, _, _, _)
ApplyDiffs(file, diffs, last_end, data) ==
    IF diffs = <<>>
    THEN IF Len(file) < last_end
         THEN [status |-> "fatal", data |-> data]
         ELSE [status |-> "ok", data |-> data \o Bytes(file, last_end, Len(file))]
    ELSE LET diff == Head(diffs)
         IN IF diff_rejected(diff, Len(file), last_end)
            THEN [status |-> "fatal", data |-> data]
            ELSE ApplyDiffs(file, Tail(diffs), diff.end,
                            data \o Bytes(file, last_end, diff.start) \o diff.data)

\* hg_file_from_memory: a file without metadata header has no metadata and its
\* content is the whole file
hg_file_from_memory(node, data) ==
    [oid |-> node, file |-> data, has_metadata |-> FALSE, metadata |-> <<>>,
     content |-> data]

\* hg_file_store(file, reference): the metadata blob and its files_meta note,
\* then the content blob and its hg2git note
hg_file_store(st, file) ==
    LET meta_oid == BlobOid(file.metadata)
        st1 == IF file.has_metadata
               THEN [st EXCEPT !.odb = Put(st.odb, meta_oid,
                                           [type |-> "blob", body |-> file.metadata]),
                               !.files_meta = Put(st.files_meta, file.oid, meta_oid),
                               !.dirty["files-meta"] = TRUE]
               ELSE st
        oid == BlobOid(file.content)
    IN [st1 EXCEPT !.odb = Put(st1.odb, oid, [type |-> "blob", body |-> file.content]),
                   !.hg2git = Put(st1.hg2git, file.oid, oid),
                   !.dirty["hg2git"] = TRUE]

\* store_file(chunk): what it leaves of the state
store_file(chunk) ==
    LET st == [status |-> "ok", msg |-> "", odb |-> odb, hg2git |-> hg2git,
               files_meta |-> files_meta, dirty |-> dirty, last_file |-> last_file]
    IN IF is_empty_hg_file(chunk.node) THEN st
       ELSE LET base == delta_base(last_file, hg2git, odb, chunk.delta_node)
            IN IF base.status # "ok"
               THEN [st EXCEPT !.status = "fatal", !.msg = "Missing data"]
               ELSE LET r == ApplyDiffs(base.file, chunk.diffs, 0, <<>>)
                        file == hg_file_from_memory(chunk.node, r.data)
                    IN IF r.status # "ok"
                       THEN [st EXCEPT !.status = "fatal",
                                       !.msg = "Malformed file chunk"]
                       ELSE IF Len(r.data) > MaxLen
                       THEN [st EXCEPT !.status = "bound"]
                       ELSE [hg_file_store(st, file) EXCEPT
                               !.last_file = [oid |-> file.oid, file |-> file.file]]

\* what the chunk asks for, read off its diffs: some diff starts past the end
\* of the base, starts before the end of the diff before it, or ends past
\* the end of the base
DiffsOutOfRange(file, diffs) ==
    \E i \in 1..Len(diffs) :
        \/ diffs[i].start > Len(file)
        \/ diffs[i].end > Len(file)
        \/ i > 1 /\ diffs[i].start < diffs[i - 1].end

RECURSIVE Concat(_)
Concat(ss) == IF ss = <<>> THEN <<>> ELSE Head(ss) \o Concat(Tail(ss))

\* the base with the byte range [start, end) of each diff replaced by the
\* diff's data, position by position
RangesReplaced(file, diffs) ==
    LET covered(p) == \E i \in 1..Len(diffs) : diffs[i].start <= p /\ p < diffs[i].end
        inserted(p) == Concat([i \in 1..Len(diffs) |->
                                 IF diffs[i].start = p THEN diffs[i].data ELSE <<>>])
        at(p) == inserted(p) \o
                 (IF p < Len(file) /\ ~covered(p) THEN <<file[p + 1]>> ELSE <<>>)
    IN Concat([q \in 1..(Len(file) + 1) |-> at(q - 1)])

\* every diff of the chunk lies in the base after the diff before it, its
\* end not before its start
DiffsOrdered(file, diffs) ==
    \A i \in 1..Len(diffs) :
        /\ (IF i = 1 THEN 0 ELSE diffs[i - 1].end) <= diffs[i].start
        /\ diffs[i].start <= diffs[i].end
        /\ diffs[i].end <= Len(file)

\* the file the diffs of a chunk are applied to: the cached last file when
\* the delta node is its node, nothing for the null node, else the blob
\* hg2git maps the delta node to
BaseContent(delta_node) ==
    IF delta_node = last_file.oid THEN last_file.file
    ELSE IF delta_node = NullHgOid THEN <<>>
    ELSE IF delta_node \in DOMAIN hg2git THEN odb[hg2git[delta_node]].body
    ELSE <<>>

\* store_file is called on a chunk
StoreFileStep(chunk) ==
    /\ Alive
    /\ LET st == store_file(chunk)
           base == delta_base(last_file, hg2git, odb, chunk.delta_node)
       IN /\ st.status # "bound"
          /\ odb' = st.odb
          /\ hg2git' = st.hg2git
          /\ files_meta' = st.files_meta
          /\ dirty' = st.dirty
          /\ last_file' = st.last_file
          /\ probe' = IF chunk = probe.chunk /\ st.status = "ok" /\ ~probe.seen
                         /\ ~is_empty_hg_file(chunk.node)
                      THEN [probe EXCEPT !.seen = TRUE,
                                         !.base = BaseContent(chunk.delta_node),
                                         !.oid = st.hg2git[chunk.node]]
                      ELSE probe
          /\ last' = [op |-> "store_file", status |-> st.status, msg |-> st.msg,
                      n |-> last.n + 1, node |-> chunk.node,
                      probed |-> chunk = probe.chunk,
                      out_of_range |-> base.status = "ok"
                                       /\ DiffsOutOfRange(base.file, chunk.diffs),
                      ordered |-> base.status = "ok"
                                  /\ DiffsOrdered(base.file, chunk.diffs),
                      expected |-> IF base.status = "ok" /\ st.status = "ok"
                                   THEN RangesReplaced(base.file, chunk.diffs)
                                   ELSE <<>>]
    /\ UNCHANGED <<headVars, packVars, git2hg, manifestVars>>

\* the command `store file`
StoreFile(chunk) ==
    /\ last.n < MaxFileCommands
    /\ StoreFileStep(chunk)
    /\ UNCHANGED <<cg, shallow, manifest_tree, session>>

InitFile ==
    /\ odb = FileOdb
    /\ graph = <<<<>>, <<1>>, <<2>>, <<3>>>>
    /\ tip = [exists |-> FALSE, parents |-> <<>>, flat |-> FALSE]
    /\ heads_kind = "manifest"
    /\ heads = <<>>
    /\ heads_sorted = FALSE
    /\ pack = NoPack
    /\ object_table = <<>>
    /\ stored = <<>>
    /\ hg2git \in {<<>>, Put(<<>>, 1, BlobOid(<<1, 2>>))}
    /\ git2hg = <<>>
    /\ files_meta = <<>>
    /\ last_file = NoFile
    /\ probe = NoProbe
    /\ last_manifest = NoManifest
    /\ experiments = FALSE
    /\ cg = NoChangegroup
    /\ InitSession
    /\ last = [op |-> "init", status |-> "ok", n |-> 0]

NextFile ==
    \/ \E chunk \in Chunks : StoreFile(chunk)
    \/ \E hg_id \in HgNodes : \E git_id \in DOMAIN odb \cup {NullOid} :
          Set("file", hg_id, git_id)

SpecFile == InitFile /\ [][NextFile]_vars

(***************************************************************************)
(* Properties of the file store.                                           *)
(***************************************************************************)
\* a chunk whose node is not that of the empty file has just been accepted
FileAccepted(l) ==
    l.op = "store_file" /\ l.status = "ok" /\ ~is_empty_hg_file(l.node)

\* C8: for every accepted file chunk the blob stored and mapped from the
\* chunk's node in hg2git is exactly the delta parent's content with the byte
\* range [start, end) of each diff replaced by the diff's data.
C8_BlobIsPatchedParent ==
    FileAccepted(last) =>
        /\ last.node \in DOMAIN hg2git
        /\ hg2git[last.node] \in DOMAIN odb
        /\ odb[hg2git[last.node]] = [type |-> "blob", body |-> last.expected]

\* C34: store_file accepts a chunk only if every diff satisfies
\* previous_end <= start <= end <= length of the delta parent's content; a
\* diff whose end is before its start is rejected as malformed.  (The chunks
\* of the empty-file node, which store_file skips unread, are left aside.)
C34_AcceptedDiffsAreOrdered ==
    (last.op = "store_file" /\ last.status = "ok" /\ ~is_empty_hg_file(last.node))
        => last.ordered

\* C9: store_file aborts with the fatal "Malformed file chunk", storing no blob
\* and adding no hg2git entry, whenever some diff of the chunk has its start
\* past the delta parent's length, its start before the previous diff's end or
\* its end past the delta parent's length.
C9_OutOfRangeIsFatal ==
    [][(last'.op = "store_file" /\ last'.out_of_range) =>
          /\ last'.status = "fatal" /\ last'.msg = "Malformed file chunk"
          /\ UNCHANGED <<odb, hg2git>>]_vars

\* C9, as the code has it: the same, for the chunks whose node is not the
\* node of the empty file (those are skipped before their diffs are read).
C9_OutOfRangeIsFatalUnlessSkipped ==
    [][(last'.op = "store_file" /\ last'.out_of_range
        /\ ~is_empty_hg_file(last'.node)) =>
          /\ last'.status = "fatal" /\ last'.msg = "Malformed file chunk"
          /\ UNCHANGED <<odb, hg2git, files_meta, last_file>>]_vars

C9_Witness ==
    /\ last.op = "store_file" /\ last.out_of_range /\ last.status = "fatal"
    /\ last.node \in HgNodes
    /\ last_file.oid # NullHgOid

\* C10: storing a chunk whose node is the node of the empty file changes
\* nothing: no object is written, hg2git and files_meta are unchanged and the
\* cached last file is left as it was, whatever the delta node and the diffs.
C10_EmptyFileIsSkipped ==
    [][(last'.op = "store_file" /\ last'.node = EmptyHgFile) =>
          /\ last'.status = "ok"
          /\ UNCHANGED <<odb, hg2git, git2hg, files_meta, last_file, headVars, packVars>>]_vars

C10_Witness ==
    /\ last.op = "store_file" /\ last.node = EmptyHgFile /\ last.status = "ok"
    /\ last.out_of_range
    /\ last_file.oid # NullHgOid

(***************************************************************************)
(* The same file chunk stored twice in a session.                          *)
(***************************************************************************)
\* the chunks of the sessions that store a chunk twice
TwiceDiffs == {<<>>, <<[start |-> 0, end |-> 0, data |-> <<2>>]>>,
               <<[start |-> 0, end |-> 1, data |-> <<>>]>>}

TwiceChunks == [node : HgNodes, delta_node : HgNodes \cup {NullHgOid},
                diffs : TwiceDiffs]

InitFileTwice ==
    /\ odb = FileOdb
    /\ graph = <<<<>>, <<1>>, <<2>>, <<3>>>>
    /\ tip = [exists |-> FALSE, parents |-> <<>>, flat |-> FALSE]
    /\ heads_kind = "manifest"
    /\ heads = <<>>
    /\ heads_sorted = FALSE
    /\ pack = NoPack
    /\ object_table = <<>>
    /\ stored = <<>>
    /\ hg2git \in {<<>>, Put(<<>>, 1, BlobOid(<<1, 2>>))}
    /\ git2hg = <<>>
    /\ files_meta = <<>>
    /\ last_file = NoFile
    /\ probe \in {[NoProbe EXCEPT !.chunk = c] : c \in TwiceChunks}
    /\ last_manifest = NoManifest
    /\ experiments = FALSE
    /\ cg = NoChangegroup
    /\ InitSession
    /\ last = [op |-> "init", status |-> "ok", n |-> 0]

NextFileTwice ==
    \/ \E chunk \in TwiceChunks : StoreFile(chunk)
    \/ \E hg_id \in HgNodes : \E git_id \in DOMAIN odb \cup {NullOid} :
          Set("file", hg_id, git_id)

SpecFileTwice == InitFileTwice /\ [][NextFileTwice]_vars

\* the followed chunk, stored and accepted before, is being stored again
StoredAgain == probe.seen /\ last'.op = "store_file" /\ last'.probed

BaseAvailable(delta_node) ==
    delta_node \in {last_file.oid, NullHgOid} \cup DOMAIN hg2git

MappedContent(delta_node) ==
    IF delta_node = NullHgOid THEN [mapped |-> TRUE, file |-> <<>>]
    ELSE IF delta_node \in DOMAIN hg2git
    THEN [mapped |-> TRUE, file |-> odb[hg2git[delta_node]].body]
    ELSE [mapped |-> FALSE, file |-> <<>>]

\* C30: the cache of the most recently stored file is transparent: the file
\* store_file applies the diffs of a chunk to is the content of the blob
\* hg2git maps the chunk's delta node to (empty for the null node), whether
\* the cache is hit or not and whatever `set file` commands were executed
\* since the cached file was stored.
C30_CacheTransparent ==
    Alive =>
        \A delta_node \in HgNodes \cup {NullHgOid} :
            LET base == delta_base(last_file, hg2git, odb, delta_node)
            IN base.status = "ok" =>
                  /\ MappedContent(delta_node).mapped
                  /\ base.file = MappedContent(delta_node).file

(***************************************************************************)
(* Manifests: their text, their lines and the mirror tree.  The bytes are  *)
(* their ASCII codes; the 40 hex digits of a node are scaled down to HexSz. *)
(***************************************************************************)
HexSz == 1

\* the paths of the manifests, in the order of a manifest: a, b, d/a
ManifestPaths == << <<97>>, <<98>>, <<100, 47, 97>> >>

\* the file nodes of the manifests: the hex digits 1 and 2
FileNodes == << <<49>>, <<50>> >>

\* the mode of a mirror entry for an attribute: 0160644, 0160755 ('x'),
\* 0160000 ('l')
ManifestModes == <<57764, 57837, 57344>>

ManifestAttrs == <<NUL, 120, 108>>

IndexOf(seq, x) == CHOOSE i \in 1..Len(seq) : seq[i] = x

\* <path>\0<sha1><attr>\n
ManifestLine(path, node, attr) ==
    path \o <<NUL>> \o node \o (IF attr = NUL THEN <<>> ELSE <<attr>>) \o <<10>>

\* get_sha1_hex succeeds on hex digits only
IsHex(s) == \A i \in 1..Len(s) : s[i] \in (48..57) \cup (97..102) \cup (65..70)

\* strslice_split_once: the part before the first c and the rest after it; an
\* empty part and the slice unchanged when c is not found
strslice_split_once(slice, c) ==
    IF \E i \in 1..Len(slice) : slice[i] = c
    THEN LET pos == CHOOSE i \in 1..Len(slice) :
                       slice[i] = c /\ \A j \in 1..(i - 1) : slice[j] # c
         IN [part |-> SubSeq(slice, 1, pos - 1),
             rest |-> SubSeq(slice, pos + 1, Len(slice))]
    ELSE [part |-> <<>>, rest |-> slice]

split_manifest_line(slice) ==
    LET s1 == strslice_split_once(slice, NUL)
        r1 == s1.rest
        r2 == SubSeq(r1, HexSz + 1, Len(r1))
        fail == [status |-> -1, path |-> <<>>, oid |-> <<>>, attr |-> NUL, rest |-> slice]
    IN IF s1.part = <<>> THEN fail
       ELSE IF Len(r1) < HexSz + 1 THEN fail
       ELSE IF ~IsHex(SubSeq(r1, 1, HexSz)) THEN fail
       ELSE LET attr == r2[1]
                r3 == IF attr = 108 \/ attr = 120 THEN Tail(r2) ELSE r2
            IN IF ~(attr = 108 \/ attr = 120 \/ attr = 10) THEN fail
               ELSE IF Len(r3) < 1 \/ r3[1] # 10 THEN fail
               ELSE [status |-> 0, path |-> s1.part, oid |-> SubSeq(r1, 1, HexSz),
                     attr |-> IF attr = 10 THEN NUL ELSE attr, rest |-> Tail(r3)]

\* every component of the path gets the prefix _
RECURSIVE manifest_metadata_path(_)
manifest_metadata_path(in) ==
    LET s == strslice_split_once(in, 47)
    IN IF Len(s.rest) # Len(in)
       THEN <<95>> \o s.part \o <<47>> \o manifest_metadata_path(s.rest)
       ELSE <<95>> \o in

\* fast-import's tree_content_set and tree_content_remove on the mirror, a
\* function from the paths of its files to [oid, mode]
tree_content_set(tree, path, oid, mode) == Put(tree, path, [oid |-> oid, mode |-> mode])

tree_content_remove(tree, path) == IF path \in DOMAIN tree THEN Remove(tree, path) ELSE tree

\* the files of a tree, depth first in the order of Git
TreeEntries(tree) ==
    LET F[i \in 0..Len(ManifestPaths)] ==
          IF i = 0 THEN <<>>
          ELSE LET p == manifest_metadata_path(ManifestPaths[i])
               IN IF p \in DOMAIN tree
                  THEN Append(F[i - 1], [path |-> ManifestPaths[i], oid |-> tree[p].oid,
                                         mode |-> tree[p].mode])
                  ELSE F[i - 1]
    IN F[Len(ManifestPaths)]

\* generate_manifest: the text of the manifest a tree stands for
generate_manifest(tree) ==
    Concat([i \in 1..Len(TreeEntries(tree)) |->
              LET e == TreeEntries(tree)[i]
              IN ManifestLine(e.path, e.oid, ManifestAttrs[IndexOf(ManifestModes, e.mode)])])

\* the oid of a tree object: a collision-free encoding of its entries
TreeOid(tree) ==
    LET digit(i) ==
          LET p == manifest_metadata_path(ManifestPaths[i])
          IN IF p \in DOMAIN tree
             THEN IndexOf(FileNodes, tree[p].oid)
                  + Len(FileNodes) * (IndexOf(ManifestModes, tree[p].mode) - 1)
             ELSE 0
        base == 1 + Len(FileNodes) * Len(ManifestModes)
        C[i \in 0..Len(ManifestPaths)] ==
          IF i = 0 THEN 0 ELSE digit(i) + base * C[i - 1]
    IN 3 + 3 * (1 + C[Len(ManifestPaths)])

(***************************************************************************)
(* The commit of a manifest, and what both strategies do once the mirror   *)
(* tree is patched.                                                        *)
(***************************************************************************)
\* a first parent is named by an oid below this one
MaxParentOid == 5000

\* a second parent is named by an oid below this one
MaxParent2Oid == 20

RECURSIVE Pow(_, _)
Pow(b, n) == IF n = 0 THEN 1 ELSE b * Pow(b, n - 1)

\* the oid of the commit of a manifest: a collision-free encoding of its
\* tree, its parents and its node, above the oids of the other commits
ManifestCommitOid(tree_oid, parents, node) ==
    LET trees == Pow(1 + Len(FileNodes) * Len(ManifestModes), Len(ManifestPaths))
        pc == IF parents = <<>> THEN 0
              ELSE IF Len(parents) = 1 THEN 1 + 2 * parents[1]
              ELSE 2 + 2 * (parents[1] + MaxParentOid * parents[2])
        code == node + (1 + Cardinality(HgNodes)) * (((tree_oid - 6) \div 3) + trees * pc)
    IN 2 + 3 * (Pow(Radix, MaxNuls + 2) + code)

\* the commit object: its lines, and what parse_commit reads from them
ManifestCommit(tree_oid, parents, node) ==
    [type |-> "commit",
     body |-> <<"tree " \o ToString(tree_oid)>>
              \o [i \in 1..Len(parents) |-> "parent " \o ToString(parents[i])]
              \o <<"author  <cinnabar@git> 0 +0000",
                   "committer  <cinnabar@git> 0 +0000",
                   "",
                   ToString(node)>>,
     tree |-> tree_oid,
     parents |-> parents]

\* add_parent that leaves out a parent without note instead of failing
add_parent_skips_unmapped(notes, lm, parent_oid) ==
    IF parent_oid # NullHgOid /\ parent_oid = lm.hg_oid
    THEN [status |-> 0, oids |-> <<lm.oid>>]
    ELSE IF parent_oid # NullHgOid /\ parent_oid \in DOMAIN notes
    THEN [status |-> 0, oids |-> <<notes[parent_oid]>>]
    ELSE [status |-> 0, oids |-> <<>>]

\* add_parent: the oids it appends to the commit, -1 when the parent has no note
add_parent(notes, lm, parent_oid) ==
    IF parent_oid # NullHgOid
    THEN IF parent_oid = lm.hg_oid THEN [status |-> 0, oids |-> <<lm.oid>>]
         ELSE IF parent_oid \in DOMAIN notes
         THEN [status |-> 0, oids |-> <<notes[parent_oid]>>]
         ELSE [status |-> -1, oids |-> <<>>]
    ELSE [status |-> 0, oids |-> <<>>]

\* the state a manifest store works on, and what it leaves
ManifestState ==
    [status |-> "ok", msg |-> "", odb |-> odb, hg2git |-> hg2git, heads |-> heads,
     heads_sorted |-> heads_sorted, dirty |-> dirty, last_manifest |-> last_manifest]

\* the tree of a commit as load_tree reads it
CommitTree(db, oid) ==
    IF "tree" \in DOMAIN db[oid] THEN db[db[oid].tree].body ELSE <<>>

\* load_manifest that keeps the mirror whatever the delta node
load_manifest_keeps_mirror(st, chunk, with_content) ==
    IF chunk.delta_node # NullHgOid /\ chunk.delta_node # st.last_manifest.hg_oid
       /\ chunk.delta_node \notin DOMAIN st.hg2git
    THEN Die(st, "Cannot find delta node")
    ELSE st

\* the head of both strategies: the mirror is thrown away and loaded from the
\* commit of the delta node unless that node is null or the node of the mirror
load_manifest(st, chunk, with_content) ==
    IF chunk.delta_node # NullHgOid /\ chunk.delta_node # st.last_manifest.hg_oid
    THEN IF chunk.delta_node \notin DOMAIN st.hg2git
         THEN Die(st, "Cannot find delta node")
         ELSE LET note == st.hg2git[chunk.delta_node]
                  tree == CommitTree(st.odb, note)
              IN [st EXCEPT !.last_manifest =
                     [hg_oid |-> chunk.delta_node, oid |-> note, tree |-> tree,
                      content |-> IF with_content THEN generate_manifest(tree)
                                  ELSE <<>>]]
    ELSE st

\* the second loop over the diffs: the lines of the added data are set in the
\* mirror, up to the first line that does not parse
RECURSIVE AddLines(_, _)
AddLines(tree, slice) ==
    LET line == split_manifest_line(slice)
    IN IF line.status # 0 THEN tree
       ELSE AddLines(tree_content_set(tree, manifest_metadata_path(line.path), line.oid,
                                      ManifestModes[IndexOf(ManifestAttrs, line.attr)]),
                     line.rest)

RECURSIVE AddDiffs(_, _)
AddDiffs(tree, diffs) ==
    IF diffs = <<>> THEN tree
    ELSE AddDiffs(AddLines(tree, Head(diffs).data), Tail(diffs))

\* the tail of both strategies: store_tree, the commit, its note and its head
commit_manifest(st, chunk, tree, content) ==
    LET tree_oid == TreeOid(tree)
        lm == st.last_manifest
        p1 == add_parent(st.hg2git, lm, chunk.parent1)
        p2 == add_parent(st.hg2git, lm, chunk.parent2)
        parents == p1.oids \o p2.oids
        oid == ManifestCommitOid(tree_oid, parents, chunk.node)
        db == Put(Put(st.odb, tree_oid, [type |-> "tree", body |-> tree]),
                  oid, ManifestCommit(tree_oid, parents, chunk.node))
    IN IF p1.status = -1 \/ p2.status = -1 THEN Die(st, "Malformed manifest chunk")
       ELSE IF \/ parents # <<>> /\ parents[1] >= MaxParentOid
               \/ Len(parents) = 2 /\ parents[2] >= MaxParent2Oid
       THEN [st EXCEPT !.status = "bound"]
       ELSE [st EXCEPT !.odb = db,
                       !.hg2git = Put(st.hg2git, chunk.node, oid),
                       !.dirty["hg2git"] = TRUE,
                       !.heads = add_head_parsed(ensure_heads(st.heads, st.heads_sorted),
                                                 oid, parents),
                       !.heads_sorted = TRUE,
                       !.last_manifest = [hg_oid |-> chunk.node, oid |-> oid,
                                          tree |-> tree, content |-> content]]

(***************************************************************************)
(* The two strategies of the manifest store.                               *)
(***************************************************************************)
\* what a read past the terminating NUL of the previous text finds: a
\* newline, another byte, or no mapped memory
OobOutcomes == {"newline", "other", "crash"}

\* last_manifest_content.buf[pos]
ReadAt(text, pos, oob) ==
    IF pos < Len(text) THEN text[pos + 1]
    ELSE IF pos = Len(text) THEN NUL
    ELSE IF oob = "newline" THEN 10
    ELSE IF oob = "other" THEN NUL
    ELSE -1

\* strbuf_slice: the slice is cut at the end of the buffer
strbuf_slice(buf, start, len) ==
    SubSeq(buf, start + 1, IF start + len > Len(buf) THEN Len(buf) ELSE start + len)

\* the lines of a removed slice are removed from the mirror, up to the first
\* line that does not parse
RECURSIVE RemoveLines(_, _)
RemoveLines(tree, slice) ==
    LET line == split_manifest_line(slice)
    IN IF line.status # 0 THEN tree
       ELSE RemoveLines(tree_content_remove(tree, manifest_metadata_path(line.path)),
                        line.rest)

\* the first loop of old_store_manifest over the diffs
RECURSIVE OldDiffs(_, _, _, _, _, _)
OldDiffs(text, diffs, last_end, data, tree, oob) ==
    IF diffs = <<>>
    THEN [status |-> "ok", tree |-> tree, data |-> data, last_end |-> last_end]
    ELSE LET diff == Head(diffs)
             bad == [status |-> "fatal", tree |-> tree, data |-> data,
                     last_end |-> last_end]
         IN IF diff.start > Len(text) \/ diff.start < last_end \/ diff.start > diff.end
            THEN bad
            ELSE IF diff.start > 0 /\ ReadAt(text, diff.start - 1, oob) # 10
            THEN bad
            ELSE IF diff.end > 0 /\ ReadAt(text, diff.end - 1, oob) = -1
            THEN [bad EXCEPT !.status = "crash"]
            ELSE IF diff.end > 0 /\ ReadAt(text, diff.end - 1, oob) # 10
            THEN bad
            ELSE OldDiffs(text, Tail(diffs), diff.end,
                          data \o Bytes(text, last_end, diff.start) \o diff.data,
                          RemoveLines(tree, strbuf_slice(text, diff.start,
                                                         diff.end - diff.start)),
                          oob)

\* what the first loop of old_store_manifest reads of the previous text: the
\* positions read, and whether lines were removed from the mirror for a diff
\* that ends past the text
RECURSIVE OldReads(_, _, _, _, _)
OldReads(text, diffs, last_end, tree, oob) ==
    IF diffs = <<>> THEN [reads |-> {}, removed_past |-> FALSE]
    ELSE LET diff == Head(diffs)
             at_start == IF diff.start > 0 THEN {diff.start - 1} ELSE {}
             at_end == IF diff.end > 0 THEN {diff.end - 1} ELSE {}
             slice == strbuf_slice(text, diff.start, diff.end - diff.start)
             removed == RemoveLines(tree, slice)
             rest == OldReads(text, Tail(diffs), diff.end, removed, oob)
         IN IF diff.start > Len(text) \/ diff.start < last_end \/ diff.start > diff.end
            THEN [reads |-> {}, removed_past |-> FALSE]
            ELSE IF diff.start > 0 /\ ReadAt(text, diff.start - 1, oob) # 10
            THEN [reads |-> at_start, removed_past |-> FALSE]
            ELSE IF diff.end > 0 /\ ReadAt(text, diff.end - 1, oob) # 10
            THEN [reads |-> at_start \cup at_end, removed_past |-> FALSE]
            ELSE [reads |-> at_start \cup at_end
                            \cup {diff.start + i - 1 : i \in 1..Len(slice)}
                            \cup rest.reads,
                  removed_past |-> (diff.end > Len(text) /\ removed # tree)
                                   \/ rest.removed_past]

\* the text-rebuild strategy with a single loop: the lines of the added data
\* are set before the removed ranges are looked at
old_store_manifest_adds_first(st0, chunk, oob) ==
    LET st == load_manifest(st0, chunk, TRUE)
        lm == st.last_manifest
        r == OldDiffs(lm.content, chunk.diffs, 0, <<>>, AddDiffs(lm.tree, chunk.diffs), oob)
    IN IF st.status # "ok" THEN st
       ELSE IF r.status = "crash" THEN [st0 EXCEPT !.status = "crash"]
       ELSE IF r.status # "ok" \/ Len(lm.content) < r.last_end
       THEN Die(st0, "Malformed manifest chunk")
       ELSE commit_manifest(st, chunk, r.tree,
                            r.data \o Bytes(lm.content, r.last_end, Len(lm.content)))

\* the text-rebuild strategy
old_store_manifest(st0, chunk, oob) ==
    LET st == load_manifest(st0, chunk, TRUE)
        lm == st.last_manifest
        r == OldDiffs(lm.content, chunk.diffs, 0, <<>>, lm.tree, oob)
    IN IF st.status # "ok" THEN st
       ELSE IF r.status = "crash" THEN [st0 EXCEPT !.status = "crash"]
       ELSE IF r.status # "ok" \/ Len(lm.content) < r.last_end
       THEN Die(st0, "Malformed manifest chunk")
       ELSE commit_manifest(st, chunk, AddDiffs(r.tree, chunk.diffs),
                            r.data \o Bytes(lm.content, r.last_end, Len(lm.content)))

\* the length of the manifest line of a file of the mirror: the names with
\* their prefix, the node, the attribute when the mode is not 0644, the newline
LineLen(e) ==
    Len(SelectSeq(manifest_metadata_path(e.path), LAMBDA c : c # 47))
    + HexSz + (IF e.mode % 512 # 420 THEN 1 ELSE 0) + 1

\* manifest_tree_advance from the file at index next of the walk
RECURSIVE manifest_tree_advance(_, _, _, _, _)
manifest_tree_advance(entries, next, tree, length, delete) ==
    IF length = 0 THEN [status |-> 1, next |-> next, tree |-> tree]
    ELSE IF next > Len(entries) THEN [status |-> 0, next |-> next, tree |-> tree]
    ELSE LET e == entries[next]
         IN IF length < LineLen(e) THEN [status |-> 0, next |-> next, tree |-> tree]
            ELSE manifest_tree_advance(
                    entries, next + 1,
                    IF delete
                    THEN tree_content_remove(tree, manifest_metadata_path(e.path))
                    ELSE tree,
                    length - LineLen(e), delete)

\* the first loop of new_store_manifest over the diffs
RECURSIVE NewDiffs(_, _, _, _, _)
NewDiffs(entries, next, diffs, last_end, tree) ==
    IF diffs = <<>> THEN [status |-> "ok", tree |-> tree]
    ELSE LET diff == Head(diffs)
             bad == [status |-> "fatal", tree |-> tree]
         IN IF diff.start < last_end \/ diff.start > diff.end THEN bad
            ELSE LET kept == manifest_tree_advance(entries, next, tree,
                                                   diff.start - last_end, FALSE)
                     gone == manifest_tree_advance(entries, kept.next, kept.tree,
                                                   diff.end - diff.start, TRUE)
                 IN IF kept.status = 0 THEN bad
                    ELSE IF gone.status = 0 THEN bad
                    ELSE NewDiffs(entries, gone.next, Tail(diffs), diff.end, gone.tree)

\* the tree-walk strategy
new_store_manifest(st0, chunk) ==
    LET st == load_manifest(st0, chunk, FALSE)
        lm == st.last_manifest
        r == NewDiffs(TreeEntries(lm.tree), 1, chunk.diffs, 0, lm.tree)
    IN IF st.status # "ok" THEN st
       ELSE IF r.status # "ok" THEN Die(st0, "Malformed manifest chunk")
       ELSE commit_manifest(st, chunk, AddDiffs(r.tree, chunk.diffs), <<>>)

store_manifest(st, chunk, oob) ==
    IF experiments THEN new_store_manifest(st, chunk)
    ELSE old_store_manifest(st, chunk, oob)

(***************************************************************************)
(* Sessions of the manifest store.                                         *)
(***************************************************************************)
\* how many manifest chunks a session stores, at most
MaxManifestCommands == 2

\* the largest start or end a manifest diff carries
MaxManifestPos == 6

\* the data of the manifest diffs: nothing, a 1, a 2 x, b 1 l, d/a 2, and a
\* line with the attribute z followed by the line b 1 l
ManifestData ==
    {<<>>,
     ManifestLine(<<97>>, <<49>>, NUL),
     ManifestLine(<<97>>, <<50>>, 120),
     ManifestLine(<<98>>, <<49>>, 108),
     ManifestLine(<<100, 47, 97>>, <<50>>, NUL),
     <<97, NUL, 49, 122, 10>> \o ManifestLine(<<98>>, <<49>>, 108)}

ManifestDiffs == [start : 0..MaxManifestPos, end : 0..MaxManifestPos, data : ManifestData]

\* the diffs of the chunks that carry two of them: whole lines of a
\* manifest of files without attribute
PairDiffs == [start : {0, Len(ManifestLine(<<97>>, <<49>>, NUL))},
              end : {0, Len(ManifestLine(<<97>>, <<49>>, NUL))},
              data : {<<>>, ManifestLine(<<97>>, <<49>>, NUL),
                      ManifestLine(<<98>>, <<49>>, 108)}]

ManifestChunks ==
    [node : HgNodes, delta_node : HgNodes \cup {NullHgOid},
     parent1 : {NullHgOid}, parent2 : {NullHgOid},
     diffs : SeqsUpTo(ManifestDiffs, 1) \cup {<<d1, d2>> : d1 \in PairDiffs, d2 \in PairDiffs}]

\* the manifest the repository may hold when the session starts: the line
\* a 1, stored under the node 1 without parents
StoredTree == tree_content_set(<<>>, manifest_metadata_path(<<97>>), <<49>>, ManifestModes[1])

ManifestOdb ==
    Put(Put(<<>>, TreeOid(StoredTree), [type |-> "tree", body |-> StoredTree]),
        ManifestCommitOid(TreeOid(StoredTree), <<>>, 1),
        ManifestCommit(TreeOid(StoredTree), <<>>, 1))

\* some diff of the chunk ends two bytes or more past the end of the text
EndsPastTerminator(chunk) ==
    \E i \in 1..Len(chunk.diffs) :
        chunk.diffs[i].end >
           Len(load_manifest(ManifestState, chunk, TRUE).last_manifest.content) + 1

\* the lines of a text, each with its newline; what follows the last newline
\* is a line too
RECURSIVE SplitLines(_)
SplitLines(text) ==
    IF text = <<>> THEN <<>>
    ELSE LET s == strslice_split_once(text, 10)
         IN IF Len(s.rest) = Len(text) THEN <<text>>
            ELSE <<s.part \o <<10>>>> \o SplitLines(s.rest)

WellFormedLine(line) ==
    split_manifest_line(line).status = 0 /\ split_manifest_line(line).rest = <<>>

\* the well-formed lines the diffs of a chunk add, in their order
AddedLines(diffs) ==
    SelectSeq(Concat([i \in 1..Len(diffs) |-> SplitLines(diffs[i].data)]), WellFormedLine)

\* the paths of the well-formed lines of the ranges the diffs remove
RemovedPaths(text, diffs) ==
    {split_manifest_line(l).path :
        l \in UNION {{ls[k] : k \in 1..Len(ls)} :
                        ls \in {SelectSeq(SplitLines(
                                             IF diffs[i].start <= diffs[i].end
                                                /\ diffs[i].end <= Len(text)
                                             THEN Bytes(text, diffs[i].start, diffs[i].end)
                                             ELSE <<>>),
                                          WellFormedLine) : i \in 1..Len(diffs)}}}

\* some line of the added data is not a well-formed manifest line
MalformedData(diffs) ==
    \E i \in 1..Len(diffs) :
        \E k \in 1..Len(SplitLines(diffs[i].data)) :
            ~WellFormedLine(SplitLines(diffs[i].data)[k])

\* pos is neither 0 nor just after a newline of the text
OffLine(text, pos) == pos > 0 /\ (pos > Len(text) \/ text[pos] # 10)

\* some diff is off a line boundary, starts before the end of the diff before
\* it, starts after its own end, or reaches past the end of the text
BadRanges(text, diffs) ==
    \E i \in 1..Len(diffs) :
        \/ OffLine(text, diffs[i].start) \/ OffLine(text, diffs[i].end)
        \/ i > 1 /\ diffs[i].start < diffs[i - 1].end
        \/ diffs[i].start > diffs[i].end
        \/ diffs[i].end > Len(text)

\* the mirror a chunk is to be applied to: the one kept when the delta node is
\* the node of the manifest stored before, an empty one for the null node
\* (any other node is loaded by load_manifest)
BaseMirror(chunk) ==
    IF chunk.delta_node = NullHgOid /\ last_manifest.hg_oid # NullHgOid
    THEN NoManifest ELSE last_manifest

\* the scenario S4 on the stored manifest a 1, as written and with the first
\* diff inserting at offset 0
ScenarioS4(first_end) ==
    LET line == ManifestLine(<<97>>, <<49>>, NUL)
    IN <<[start |-> 0, end |-> first_end, data |-> line],
         [start |-> 0, end |-> Len(line), data |-> <<>>]>>

\* what the strategies leave that both have
Outcome(st) ==
    [status |-> st.status, odb |-> st.odb, hg2git |-> st.hg2git, heads |-> st.heads,
     tree |-> st.last_manifest.tree, oid |-> st.last_manifest.oid,
     hg_oid |-> st.last_manifest.hg_oid]

\* store_manifest is called on a chunk
StoreManifestStep(chunk) ==
    /\ Alive
    /\ \E oob \in IF ~experiments /\ EndsPastTerminator(chunk)
                  THEN OobOutcomes ELSE {"other"} :
          \E st \in {store_manifest(ManifestState, chunk, oob)} :
          \E text \in {generate_manifest(
                          load_manifest(ManifestState, chunk, TRUE).last_manifest.tree)} :
             /\ st.status # "bound"
             /\ odb' = st.odb
             /\ hg2git' = st.hg2git
             /\ dirty' = st.dirty
             /\ heads' = st.heads
             /\ heads_sorted' = st.heads_sorted
             /\ last_manifest' = st.last_manifest
             /\ last' = [op |-> "store_manifest", status |-> st.status, msg |-> st.msg,
                         n |-> last.n + 1, node |-> chunk.node,
                         delta_node |-> chunk.delta_node,
                         parent1 |-> chunk.parent1, parent2 |-> chunk.parent2,
                         nodiffs |-> chunk.diffs = <<>>,
                         scenario |-> IF chunk.diffs = ScenarioS4(4) THEN "S4"
                                      ELSE IF chunk.diffs = ScenarioS4(0) THEN "S4'"
                                      ELSE "",
                         added |-> AddedLines(chunk.diffs),
                         removed |-> RemovedPaths(
                            IF experiments THEN text
                            ELSE load_manifest(ManifestState, chunk, TRUE)
                                    .last_manifest.content, chunk.diffs),
                         malformed_data |-> MalformedData(chunk.diffs),
                         text_len |-> Len(load_manifest(ManifestState, chunk, TRUE)
                                             .last_manifest.content),
                         old_reads |->
                            IF experiments
                               \/ load_manifest(ManifestState, chunk, TRUE).status # "ok"
                            THEN [reads |-> {}, removed_past |-> FALSE]
                            ELSE OldReads(
                               load_manifest(ManifestState, chunk, TRUE)
                                  .last_manifest.content, chunk.diffs, 0,
                               load_manifest(ManifestState, chunk, TRUE)
                                  .last_manifest.tree, oob),
                         ends_past |-> \E i \in 1..Len(chunk.diffs) :
                            chunk.diffs[i].end >
                               Len(load_manifest(ManifestState, chunk, TRUE)
                                      .last_manifest.content),
                         bad_ranges |-> BadRanges(
                            IF experiments THEN text
                            ELSE load_manifest(ManifestState, chunk, TRUE)
                                    .last_manifest.content, chunk.diffs),
                         based |-> Outcome(store_manifest(
                            [ManifestState EXCEPT !.last_manifest = BaseMirror(chunk)],
                            chunk, oob)) = Outcome(st),
                         agree |-> experiments
                                   \/ Outcome(new_store_manifest(ManifestState, chunk))
                                      = Outcome(st)]
    /\ UNCHANGED <<graph, tip, heads_kind, packVars, git2hg, files_meta, last_file,
                   probe, experiments>>

\* the command `store manifest`
StoreManifest(chunk) ==
    /\ StoreManifestStep(chunk)
    /\ UNCHANGED <<cg, shallow, manifest_tree, session>>

InitManifest ==
    /\ odb = ManifestOdb
    /\ graph = <<<<>>, <<1>>, <<2>>, <<3>>>>
    /\ tip = [exists |-> FALSE, parents |-> <<>>, flat |-> FALSE]
    /\ heads_kind = "manifest"
    /\ heads = <<>>
    /\ heads_sorted = FALSE
    /\ pack = NoPack
    /\ object_table = <<>>
    /\ stored = <<>>
    /\ hg2git \in {<<>>, Put(<<>>, 1, ManifestCommitOid(TreeOid(StoredTree), <<>>, 1))}
    /\ git2hg = <<>>
    /\ files_meta = <<>>
    /\ last_file = NoFile
    /\ probe = NoProbe
    /\ last_manifest = NoManifest
    /\ experiments \in BOOLEAN
    /\ cg = NoChangegroup
    /\ InitSession
    /\ last = [op |-> "init", status |-> "ok", n |-> 0]

NextManifest ==
    /\ last.n < MaxManifestCommands
    /\ \E chunk \in ManifestChunks : StoreManifest(chunk)

SpecManifest == InitManifest /\ [][NextManifest]_vars

(***************************************************************************)
(* Properties of the manifest store.                                       *)
(***************************************************************************)
\* a manifest chunk has just been accepted
ManifestAccepted(l) == l.op = "store_manifest" /\ l.status = "ok"

\* a manifest chunk has just been rejected as malformed
ManifestMalformed(l) ==
    l.op = "store_manifest" /\ l.status = "fatal" /\ l.msg = "Malformed manifest chunk"

\* a manifest chunk whose delta node is known has just been processed
ManifestProcessed(l) == l.op = "store_manifest" /\ l.msg # "Cannot find delta node"

LinePath(line) == split_manifest_line(line).path

\* the mirror has the file of a manifest line, under its prefixed path
InMirror(tree, line) ==
    /\ manifest_metadata_path(LinePath(line)) \in DOMAIN tree
    /\ tree[manifest_metadata_path(LinePath(line))] =
          [oid |-> split_manifest_line(line).oid,
           mode |-> ManifestModes[IndexOf(ManifestAttrs, split_manifest_line(line).attr)]]

\* C12: for every accepted manifest chunk all removals take effect before any
\* addition: every path of the added data is in the mirror under its prefixed
\* path, with the node and the mode of its (last) added line, even when a
\* removed range names it; every path of a removed range that is not added
\* again is absent.
C12_RemovalsBeforeAdditions ==
    ManifestAccepted(last) =>
        /\ \A k \in 1..Len(last.added) :
              (\A j \in (k + 1)..Len(last.added) :
                    LinePath(last.added[j]) # LinePath(last.added[k]))
                 => InMirror(last_manifest.tree, last.added[k])
        /\ \A p \in last.removed :
              (\A k \in 1..Len(last.added) : LinePath(last.added[k]) # p)
                 => manifest_metadata_path(p) \notin DOMAIN last_manifest.tree

\* the same for the chunks all of whose added lines are well-formed
C12_WellFormedOnly ==
    (ManifestAccepted(last) /\ ~last.malformed_data) => C12_RemovalsBeforeAdditions

\* the manifest the chunk of a step is applied to is the single line a 1
OnStoredLine(delta_node) ==
    LET st == load_manifest(ManifestState, [delta_node |-> delta_node], TRUE)
        lm == st.last_manifest
    IN /\ st.status = "ok"
       /\ lm.tree = StoredTree
       /\ ~experiments => lm.content = ManifestLine(<<97>>, <<49>>, NUL)

\* C13: scenario S4: on the manifest made of the line of a with the node A, the
\* chunk whose diffs are {0, 48, the line} then {0, 48, nothing} is accepted
\* and the final tree has _a pointing at A.
C13_ScenarioS4 ==
    [][(last'.op = "store_manifest" /\ last'.scenario = "S4"
        /\ OnStoredLine(last'.delta_node))
          => last'.status = "ok" /\ last_manifest'.tree = StoredTree]_vars

\* C13, as the code has it: the chunk whose diffs are {0, 0, the line} then
\* {0, 48, nothing} is accepted and the final tree has _a pointing at A.
C13_ScenarioS4Inserting ==
    [][(last'.op = "store_manifest" /\ last'.scenario = "S4'"
        /\ OnStoredLine(last'.delta_node))
          => last'.status = "ok" /\ last_manifest'.tree = StoredTree]_vars

C13_Witness ==
    /\ ManifestAccepted(last) /\ last.scenario = "S4'"
    /\ last.delta_node = 1 /\ last.n = 1
    /\ last_manifest.tree = StoredTree

\* C14: the mirror is kept from one chunk to the next only when the delta node
\* is the node of the chunk stored before; for every other delta node, the
\* null one after a manifest was stored included, the chunk is applied to the
\* tree of the delta node (empty for the null node).
C14_MirrorKeptOnlyForPreviousNode ==
    last.op = "store_manifest" => last.based

\* C16: the two strategies accept or reject each chunk alike and leave the same
\* mirror tree, commit, hg2git and manifest_heads.
C16_StrategiesAgree ==
    last.op = "store_manifest" => last.agree

\* C17: a chunk whose added data has a line that is not a well-formed manifest
\* line is rejected with the fatal "Malformed manifest chunk".
C17_MalformedLineIsFatal ==
    (ManifestProcessed(last) /\ last.malformed_data) => ManifestMalformed(last)

\* C18: the text-rebuild store rejects as malformed every chunk with a diff off
\* a line boundary of the previous text, a diff starting before the end of the
\* diff before it or after its own end, or a range reaching past the end of
\* the text.
C18_BadRangesAreMalformed ==
    (~experiments /\ ManifestProcessed(last) /\ last.bad_ranges) => ManifestMalformed(last)

\* the same for the chunks that read nothing past the end of the text, or find
\* mapped memory there
C18_UnlessCrashed ==
    (~experiments /\ ManifestProcessed(last) /\ last.bad_ranges /\ last.status # "crash")
        => ManifestMalformed(last)

\* C32: in the text-rebuild store, every position of the previous text read
\* while a diff is processed (the bytes at start - 1 and end - 1, the removed
\* slice) is inside the text; a chunk with a diff ending past the text is
\* rejected as malformed, without a line removed from the mirror for such a
\* diff.
C32_ReadsInsideText ==
    (~experiments /\ ManifestProcessed(last)) =>
        /\ \A pos \in last.old_reads.reads : pos < last.text_len
        /\ ~last.old_reads.removed_past
        /\ last.ends_past => ManifestMalformed(last)

(***************************************************************************)
(* Manifest chunks with parents, between commands `set manifest`.          *)
(***************************************************************************)
\* a commit of the empty tree the repository holds besides the stored manifest
EmptyTreeCommit ==
    [type |-> "commit", body |-> <<1>>, tree |-> TreeOid(<<>>), parents |-> <<>>]

ParentOdb ==
    Put(Put(ManifestOdb, TreeOid(<<>>), [type |-> "tree", body |-> <<>>]),
        CommitOid(1), EmptyTreeCommit)

\* the chunks carry no diff or insert the line b 1 l at the start
ParentChunks ==
    [node : HgNodes, delta_node : HgNodes \cup {NullHgOid},
     parent1 : HgNodes \cup {NullHgOid}, parent2 : {NullHgOid, 2},
     diffs : {<<>>, <<[start |-> 0, end |-> 0,
                       data |-> ManifestLine(<<98>>, <<49>>, 108)]>>}]

\* the commits `set manifest` names
ParentCommits == {NullOid, CommitOid(1), ManifestCommitOid(TreeOid(StoredTree), <<>>, 1)}

InitManifestParents ==
    /\ odb = ParentOdb
    /\ graph = <<<<>>, <<1>>, <<2>>, <<3>>>>
    /\ tip = [exists |-> FALSE, parents |-> <<>>, flat |-> FALSE]
    /\ heads_kind = "manifest"
    /\ heads = <<>>
    /\ heads_sorted = FALSE
    /\ pack = NoPack
    /\ object_table = <<>>
    /\ stored = <<>>
    /\ hg2git \in {<<>>,
                   Put(<<>>, 1, ManifestCommitOid(TreeOid(StoredTree), <<>>, 1)),
                   Put(Put(<<>>, 1, ManifestCommitOid(TreeOid(StoredTree), <<>>, 1)),
                       2, CommitOid(1))}
    /\ git2hg = <<>>
    /\ files_meta = <<>>
    /\ last_file = NoFile
    /\ probe = NoProbe
    /\ last_manifest = NoManifest
    /\ experiments \in BOOLEAN
    /\ cg = NoChangegroup
    /\ InitSession
    /\ last = [op |-> "init", status |-> "ok", n |-> 0]

NextManifestParents ==
    /\ last.n < MaxCommands
    /\ \/ \E chunk \in ParentChunks : StoreManifest(chunk)
       \/ \E hg_id \in HgNodes, git_id \in ParentCommits : Set("manifest", hg_id, git_id)

SpecManifestParents == InitManifestParents /\ [][NextManifestParents]_vars

\* the step stores a manifest chunk and the store returns
ManifestStored == last'.op = "store_manifest" /\ last'.status = "ok"

\* the node whose manifest the mirror holds once the store has looked at the
\* delta node of the chunk, and the commit of that manifest
MirrorNode(delta_node) ==
    IF delta_node # NullHgOid /\ delta_node # last_manifest.hg_oid
    THEN delta_node ELSE last_manifest.hg_oid

MirrorCommit(delta_node) ==
    IF delta_node # NullHgOid /\ delta_node # last_manifest.hg_oid
    THEN IF delta_node \in DOMAIN hg2git THEN hg2git[delta_node] ELSE NullOid
    ELSE last_manifest.oid

ParentNamed(parent, delta_node) ==
    IF parent = MirrorNode(delta_node) THEN {MirrorCommit(delta_node)}
    ELSE IF parent \in DOMAIN hg2git THEN {hg2git[parent]}
    ELSE {}

ParentLines(parent, delta_node) ==
    IF parent = NullHgOid THEN {<<>>}
    ELSE {<<"parent " \o ToString(c)>> : c \in ParentNamed(parent, delta_node)}

\* C19: the commit of a stored manifest chunk is the tree line of the mirror
\* tree, a parent line for each parent that is not null, first parent first
\* (naming the commit kept for the node of the mirror, else the commit hg2git
\* names), the author and committer lines, an empty line and the node; hg2git
\* maps the node to it; a parent that is not null and has no commit is fatal
C19_ManifestCommit ==
    [][last'.op = "store_manifest"
       => /\ last'.status = "ok"
             => LET new == last_manifest'.oid
                IN /\ new \in DOMAIN odb' /\ odb'[new].type = "commit"
                   /\ hg2git'[last'.node] = new
                   /\ TreeOid(last_manifest'.tree) \in DOMAIN odb'
                   /\ odb'[TreeOid(last_manifest'.tree)].body = last_manifest'.tree
                   /\ \E l1 \in ParentLines(last'.parent1, last'.delta_node),
                         l2 \in ParentLines(last'.parent2, last'.delta_node) :
                         odb'[new].body =
                            <<"tree " \o ToString(TreeOid(last_manifest'.tree))>>
                            \o l1 \o l2
                            \o <<"author  <cinnabar@git> 0 +0000",
                                 "committer  <cinnabar@git> 0 +0000",
                                 "",
                                 ToString(last'.node)>>
          /\ (\E p \in {last'.parent1, last'.parent2} :
                 p # NullHgOid /\ ParentNamed(p, last'.delta_node) = {})
             => last'.status = "fatal"]_vars

\* a chunk with two parents is stored, the first one the node stored before
\* whose note `set manifest` has removed or changed since
C19_Witness ==
    /\ last.op = "store_manifest" /\ last.status = "ok" /\ last.n = 3
    /\ last.parent1 # NullHgOid /\ last.parent2 # NullHgOid
    /\ Len(odb[last_manifest.oid].parents) = 2
    /\ last.parent1 # last.node
    /\ \/ last.parent1 \notin DOMAIN hg2git
       \/ hg2git[last.parent1] # odb[last_manifest.oid].parents[1]

(***************************************************************************)
(* The command `store changegroup`: do_store reads the chunks of the       *)
(* stream one after the other. cg holds where it is: the loop it is in     *)
(* (phase), the version, the delta_node of for_each_changegroup_chunk,     *)
(* the node, the first parent and the fourth id of the chunk read last     *)
(* (node, parent1, encoded), the delta node its callback got (delta), for  *)
(* each chunk read so far whether it had a length (read) and what was done *)
(* with it (log).                                                          *)
(***************************************************************************)
\* how many chunks of a stream are read, at most
MaxChunks == 8

\* the chunks of a stream that have a length; in a version 1 stream the
\* field delta_node is not the delta node
CgChunks ==
    [node : HgNodes, parent1 : {NullHgOid, 1}, parent2 : {NullHgOid},
     delta_node : {NullHgOid, 1}, diffs : {<<>>}]

\* where do_store goes on a chunk without length, leaving the loops over the
\* manifests and the files out
after_empty_skips_manifests(phase) ==
    CASE phase = "changesets" -> "files"
      [] phase = "manifests" -> "files"
      [] phase = "files" -> "done"
      [] phase = "file" -> "files"

\* where do_store goes on a chunk without length
after_empty(phase) ==
    CASE phase = "changesets" -> "manifests"
      [] phase = "manifests" -> "files"
      [] phase = "files" -> "done"
      [] phase = "file" -> "files"

\* rev_chunk_from_memory taking the delta node from the chunk whatever the
\* version
rev_chunk_from_memory_encoded(item) == item

\* rev_chunk_from_memory and the line after it: the chunk the callback gets
rev_chunk_from_memory(item) ==
    IF cg.version = 2 THEN item
    ELSE [item EXCEPT !.delta_node = IF cg.delta_node = NullHgOid THEN item.parent1
                                     ELSE cg.delta_node]

\* cg after a chunk with a length went through the callback
Consumed(item, role) ==
    [cg EXCEPT !.delta_node = IF cg.version = 2 THEN NullHgOid ELSE item.node,
               !.node = item.node,
               !.parent1 = item.parent1,
               !.encoded = item.delta_node,
               !.delta = rev_chunk_from_memory(item).delta_node,
               !.read = Append(cg.read, TRUE),
               !.log = Append(cg.log, role)]

Reading == Alive /\ Len(cg.read) < MaxChunks

\* the command `store changegroup 1` or `store changegroup 2` starts
StoreChangegroup(version) ==
    /\ Alive
    /\ cg.phase = "none"
    /\ cg' = [NoChangegroup EXCEPT !.phase = "changesets", !.version = version]
    /\ last' = [op |-> "store_changegroup", status |-> "ok", n |-> last.n]
    /\ UNCHANGED <<odb, headVars, packVars, noteVars, last_file, probe, manifestVars,
                   sessionVars>>

\* a chunk without length is read: the loop of for_each_changegroup_chunk,
\* or the loop over the files, ends
ReadEmptyChunk ==
    /\ Reading
    /\ cg.phase \in {"changesets", "manifests", "files", "file"}
    /\ cg' = [cg EXCEPT !.phase = after_empty(cg.phase),
                        !.delta_node = NullHgOid,
                        !.node = NullHgOid,
                        !.read = Append(cg.read, FALSE),
                        !.log = Append(cg.log, IF cg.phase = "files" THEN "done" ELSE "end")]
    /\ last' = [op |-> "read_chunk", status |-> "ok", n |-> last.n]
    /\ UNCHANGED <<odb, headVars, packVars, noteVars, last_file, probe, manifestVars,
                   sessionVars>>

\* a changeset chunk goes through skip_chunk
SkipChunk(item) ==
    /\ Reading
    /\ cg.phase = "changesets"
    /\ cg' = Consumed(item, "changeset")
    /\ last' = [op |-> "read_chunk", status |-> "ok", n |-> last.n]
    /\ UNCHANGED <<odb, headVars, packVars, noteVars, last_file, probe, manifestVars,
                   sessionVars>>

\* a manifest chunk goes through store_manifest
ManifestChunk(item) ==
    /\ Reading
    /\ cg.phase = "manifests"
    /\ StoreManifestStep(rev_chunk_from_memory(item))
    /\ cg' = Consumed(item, "manifest")
    /\ UNCHANGED <<shallow, manifest_tree, session>>

\* the chunk that names a file is read
FileHeader ==
    /\ Reading
    /\ cg.phase = "files"
    /\ cg' = [cg EXCEPT !.phase = "file",
                        !.delta_node = NullHgOid,
                        !.node = NullHgOid,
                        !.read = Append(cg.read, TRUE),
                        !.log = Append(cg.log, "header")]
    /\ last' = [op |-> "read_chunk", status |-> "ok", n |-> last.n]
    /\ UNCHANGED <<odb, headVars, packVars, noteVars, last_file, probe, manifestVars,
                   sessionVars>>

\* the object hg_file_load would read for the delta node is a blob
LoadsBlob(chunk) ==
    IF chunk.delta_node \in {NullHgOid, last_file.oid} \cup (HgNodes \ DOMAIN hg2git)
    THEN TRUE
    ELSE odb[hg2git[chunk.delta_node]].type = "blob"

\* a file chunk goes through store_file
FileChunk(item) ==
    /\ Reading
    /\ cg.phase = "file"
    /\ LoadsBlob(rev_chunk_from_memory(item))
    /\ StoreFileStep(rev_chunk_from_memory(item))
    /\ cg' = Consumed(item, "file")
    /\ UNCHANGED <<shallow, manifest_tree, session>>

NextChangegroup ==
    \/ \E version \in {1, 2} : StoreChangegroup(version)
    \/ ReadEmptyChunk
    \/ \E item \in CgChunks : SkipChunk(item)
    \/ \E item \in CgChunks : ManifestChunk(item)
    \/ FileHeader
    \/ \E item \in CgChunks : FileChunk(item)

SpecChangegroup == InitManifest /\ [][NextChangegroup]_vars

\* what the position i of a stream is, read off the chunks without length
\* before it: a changeset before the first of them, a manifest before the
\* second, then the chunk naming a file after each of them and a chunk of
\* that file otherwise; a chunk without length ends the section, and ends the
\* command where the name of a file is expected
Role(read, i) ==
    LET ends == Cardinality({j \in 1..(i - 1) : ~read[j]})
    IN IF ends = 0 THEN (IF read[i] THEN "changeset" ELSE "end")
       ELSE IF ends = 1 THEN (IF read[i] THEN "manifest" ELSE "end")
       ELSE IF ~read[i - 1] THEN (IF read[i] THEN "header" ELSE "done")
       ELSE (IF read[i] THEN "file" ELSE "end")

\* C20: every chunk of a changegroup is taken for what its position in the
\* stream makes it: changesets up to the first chunk without length, manifests
\* up to the next one, then sections of a chunk naming a file and the chunks
\* of that file; a changeset chunk changes nothing, a manifest chunk goes to
\* the manifest store and a file chunk to the file store, nothing else is
\* stored, no manifest is stored after a file, and the command ends at the
\* first chunk without length where the name of a file is expected
C20_ChangegroupPhases ==
    [][LET n == Len(cg'.log)
       IN /\ Len(cg'.read) = n
          /\ \A i \in 1..n : cg'.log[i] = Role(cg'.read, i)
          /\ \A i \in 1..n : Role(cg'.read, i) = "done" => i = n
          /\ cg'.phase = "done" <=> (n > 0 /\ Role(cg'.read, n) = "done")
          /\ \A i \in 1..n : \A j \in (i + 1)..n :
                ~(Role(cg'.read, i) = "file" /\ Role(cg'.read, j) = "manifest")
          /\ (n = Len(cg.log) + 1 /\ Role(cg'.read, n) = "changeset")
                => UNCHANGED <<odb, headVars, packVars, noteVars, last_file, manifestVars>>
          /\ (n = Len(cg.log) + 1 /\ Role(cg'.read, n) = "manifest")
                => last'.op = "store_manifest" /\ last'.node = cg'.node
          /\ (n = Len(cg.log) + 1 /\ Role(cg'.read, n) = "file")
                => last'.op = "store_file" /\ last'.node = cg'.node
          /\ last'.op \in {"store_manifest", "store_file"}
                => /\ n = Len(cg.log) + 1
                   /\ Role(cg'.read, n) = IF last'.op = "store_manifest" THEN "manifest"
                                          ELSE "file"]_vars

\* a changegroup with a changeset, a manifest and a file with a revision is
\* read to its end
C20_Witness ==
    /\ Alive /\ cg.phase = "done"
    /\ \A role \in {"changeset", "manifest", "header", "file"} :
          \E i \in 1..Len(cg.log) : cg.log[i] = role

\* the chunk at position i of a stream is the first of its section: the first
\* of the stream, or the one after a chunk without length or after the chunk
\* naming a file
FirstOfSection(read, i) == i = 1 \/ Role(read, i - 1) \in {"end", "header"}

\* the step reads a changeset, manifest or file chunk
ChunkRead ==
    /\ Len(cg'.log) = Len(cg.log) + 1
    /\ Role(cg'.read, Len(cg'.read)) \in {"changeset", "manifest", "file"}

\* C21: in a version 1 changegroup the callback gets, as delta node, the
\* first parent of the chunk for the first chunk of a section and the node of
\* the chunk before it for the others, nothing carrying over from the section
\* or the file before; in version 2 it gets the id the chunk carries
C21_DeltaParent ==
    [][ChunkRead =>
          cg'.delta = IF cg.version = 2 THEN cg'.encoded
                      ELSE IF FirstOfSection(cg'.read, Len(cg'.read)) THEN cg'.parent1
                      ELSE cg.node]_vars

\* a version 1 stream whose second file chunk is stored on the node of the
\* first one, which is neither its first parent nor the id it carries
C21_Witness ==
    /\ Alive /\ cg.version = 1 /\ Len(cg.log) >= 2
    /\ cg.log[Len(cg.log)] = "file" /\ cg.log[Len(cg.log) - 1] = "file"
    /\ cg.delta \notin {cg.parent1, cg.encoded}
    /\ last.op = "store_file"

(***************************************************************************)
(* The walk of the tree-walk strategy over a tree with directories:        *)
(* struct manifest_tree, its stack of iterators, and what the walk leaves  *)
(* of the modes and oids.                                                  *)
(***************************************************************************)
\* the mode of a directory, 040000
S_IFDIR == 16384

S_ISDIR(mode) == mode = S_IFDIR

\* the largest length a walk is asked to advance by
MaxAdvance == 12

\* how many times a walk is advanced before it is finished, at most
MaxAdvances == 2

\* struct tree_entry: versions[1].mode, versions[1].oid, and the tree of a
\* directory
FileEntry(name, mode, oid) == [name |-> name, mode |-> mode, oid |-> oid, tree |-> <<>>]

DirEntry(name, oid, tree) == [name |-> name, mode |-> S_IFDIR, oid |-> oid, tree |-> tree]

\* the trees walked: the files _a (0644), _b (0755) and _e (a link), the
\* directories _d and _d/_f
WalkTrees ==
    LET a == FileEntry(<<95, 97>>, ManifestModes[1], 1)
        b == FileEntry(<<95, 98>>, ManifestModes[2], 2)
        e == FileEntry(<<95, 101>>, ManifestModes[3], 1)
    IN {<<>>,
        <<a, b>>,
        <<a, DirEntry(<<95, 100>>, 3, <<a>>)>>,
        <<DirEntry(<<95, 100>>, 3, <<a, b>>), e>>,
        <<a, DirEntry(<<95, 100>>, 3, <<DirEntry(<<95, 102>>, 4, <<a>>), b>>), e>>}

\* the entries of the directory reached from e along the indices of path
RECURSIVE TreeAt(_, _)
TreeAt(e, path) ==
    IF path = <<>> THEN e.tree ELSE TreeAt(e.tree[Head(path)], Tail(path))

\* e with the entry i of the directory at path replaced
RECURSIVE WithEntry(_, _, _, _)
WithEntry(e, path, i, new) ==
    IF path = <<>> THEN [e EXCEPT !.tree[i] = new]
    ELSE [e EXCEPT !.tree[Head(path)] = WithEntry(e.tree[Head(path)], Tail(path), i, new)]

\* tree_start_iter; iter.tree is the directory at path
tree_start_iter(path) ==
    [path |-> path, next_entry |-> 0, remaining_entry_count |-> 0, modified |-> FALSE]

\* tree_current_entry: the last entry tree_next_entry returned
tree_current_entry(root, iter) == TreeAt(root, iter.path)[iter.next_entry]

manifest_tree_init(root) ==
    [root |-> root, stack |-> <<>>, prefix_len |-> 0, iter |-> tree_start_iter(<<>>)]

\* manifest_tree_enter_dir(tree, e), e the current entry
manifest_tree_enter_dir(t) ==
    LET e == tree_current_entry(t.root, t.iter)
    IN [t EXCEPT !.stack = Append(t.stack, t.iter),
                 !.prefix_len = t.prefix_len + Len(e.name),
                 !.iter = tree_start_iter(Append(t.iter.path, t.iter.next_entry))]

manifest_tree_leave_dir(t) ==
    IF t.stack = <<>>
    THEN [ret |-> 0,
          tree |-> IF t.iter.modified THEN [t EXCEPT !.root.oid = NullOid] ELSE t]
    ELSE LET iter == t.iter
             up == t.stack[Len(t.stack)]
             e == tree_current_entry(t.root, up)
             e1 == IF iter.modified
                   THEN [e EXCEPT !.oid = NullOid,
                                  !.mode = IF iter.remaining_entry_count = 0
                                           THEN 0 ELSE e.mode]
                   ELSE e
         IN [ret |-> 1,
             tree |-> [t EXCEPT
                !.stack = SubSeq(t.stack, 1, Len(t.stack) - 1),
                !.prefix_len = t.prefix_len - Len(e.name),
                !.root = WithEntry(t.root, up.path, up.next_entry, e1),
                !.iter = [up EXCEPT
                    !.modified = up.modified \/ iter.modified,
                    !.remaining_entry_count =
                        up.remaining_entry_count
                        + (IF iter.remaining_entry_count # 0 THEN 1 ELSE 0)]]]

\* the line length manifest_tree_advance computes for a file, the 40 hex
\* digits scaled down to HexSz
line_len_no_attr(prefix_len, e) == prefix_len + Len(e.name) + HexSz + 1

line_len(prefix_len, e) ==
    prefix_len + Len(e.name) + HexSz + (IF e.mode % 512 # 420 THEN 1 ELSE 0) + 1

\* manifest_tree_advance(tree, length, delete) on the tree with
\* directories; files counts the entries it went over
RECURSIVE manifest_tree_advance_dirs(_, _, _, _)
manifest_tree_advance_dirs(t, length, delete, files) ==
    IF length = 0 THEN [ret |-> 1, tree |-> t, files |-> files]
    ELSE IF t.iter.next_entry >= Len(TreeAt(t.root, t.iter.path))
    THEN LET left == manifest_tree_leave_dir(t)
         IN IF left.ret = 0 THEN [ret |-> 0, tree |-> left.tree, files |-> files]
            ELSE manifest_tree_advance_dirs(left.tree, length, delete, files)
    ELSE LET t1 == [t EXCEPT !.iter.next_entry = t.iter.next_entry + 1]
             e == tree_current_entry(t1.root, t1.iter)
         IN IF S_ISDIR(e.mode)
            THEN manifest_tree_advance_dirs(manifest_tree_enter_dir(t1), length, delete,
                                            files)
            ELSE IF length < line_len(t1.prefix_len, e)
            THEN [ret |-> 0, tree |-> t1, files |-> files]
            ELSE manifest_tree_advance_dirs(
                    IF delete
                    THEN [t1 EXCEPT
                            !.root = WithEntry(t1.root, t1.iter.path, t1.iter.next_entry,
                                               [e EXCEPT !.mode = 0, !.oid = NullOid]),
                            !.iter.modified = TRUE]
                    ELSE [t1 EXCEPT !.iter.remaining_entry_count =
                                        t1.iter.remaining_entry_count + 1],
                    length - line_len(t1.prefix_len, e), delete, files + 1)

\* manifest_tree_finish: the entries not walked remain, every directory of
\* the stack is left
RECURSIVE manifest_tree_finish(_)
manifest_tree_finish(t) ==
    LET n == Len(TreeAt(t.root, t.iter.path))
        t1 == [t EXCEPT !.iter.remaining_entry_count =
                            t.iter.remaining_entry_count + n - t.iter.next_entry,
                        !.iter.next_entry = n]
        left == manifest_tree_leave_dir(t1)
    IN IF left.ret = 0 THEN left.tree ELSE manifest_tree_finish(left.tree)

\* the walk is advanced by length bytes, as by one of the two calls
\* new_store_manifest makes for a diff; a walk that fails is not continued
Advance(length, delete) ==
    /\ last.op \in {"init", "advance"}
    /\ last.status = "ok"
    /\ last.n < MaxAdvances
    /\ LET r == manifest_tree_advance_dirs(manifest_tree, length, delete, 0)
       IN /\ manifest_tree' = r.tree
          /\ last' = [op |-> "advance", status |-> IF r.ret = 1 THEN "ok" ELSE "fatal",
                      n |-> last.n + 1, length |-> length, delete |-> delete,
                      pos |-> last.pos + r.files]
    /\ UNCHANGED <<odb, headVars, packVars, noteVars, last_file, probe, manifestVars, cg,
                   dirty, shallow, session>>

\* the walk is finished
Finish ==
    /\ last.op \in {"init", "advance"}
    /\ last.status = "ok"
    /\ manifest_tree' = manifest_tree_finish(manifest_tree)
    /\ last' = [last EXCEPT !.op = "finish"]
    /\ UNCHANGED <<odb, headVars, packVars, noteVars, last_file, probe, manifestVars, cg,
                   dirty, shallow, session>>

InitWalk ==
    /\ odb = <<>>
    /\ graph = <<<<>>, <<1>>, <<2>>, <<3>>>>
    /\ tip = [exists |-> FALSE, parents |-> <<>>, flat |-> FALSE]
    /\ heads_kind = "manifest"
    /\ heads = <<>>
    /\ heads_sorted = FALSE
    /\ pack = NoPack
    /\ object_table = <<>>
    /\ stored = <<>>
    /\ hg2git = <<>> /\ git2hg = <<>> /\ files_meta = <<>>
    /\ last_file = NoFile
    /\ probe = NoProbe
    /\ last_manifest = NoManifest
    /\ experiments = TRUE
    /\ cg = NoChangegroup
    /\ dirty = NotDirty
    /\ shallow = NoShallow
    /\ session = NoSession
    /\ \E tree \in WalkTrees :
          manifest_tree = manifest_tree_init(DirEntry(<<>>, 5, tree))
    /\ last = [op |-> "init", status |-> "ok", n |-> 0, pos |-> 0, length |-> 0,
               delete |-> FALSE]

NextWalk ==
    \/ \E length \in 0..MaxAdvance : \E delete \in BOOLEAN : Advance(length, delete)
    \/ Finish

SpecWalk == InitWalk /\ [][NextWalk]_vars

\* the files of a tree depth first, each with the indices that lead to it
\* and the length of its manifest line: the names of its directories and its
\* own, each with its underscore, the node, one more byte when the permission
\* bits are not 0644, the newline
RECURSIVE FilesOf(_, _, _, _)
FilesOf(entries, i, path, prefix_len) ==
    IF i > Len(entries) THEN <<>>
    ELSE LET e == entries[i]
         IN (IF e.tree # <<>>
             THEN FilesOf(e.tree, 1, Append(path, i), prefix_len + Len(e.name))
             ELSE << [at |-> Append(path, i),
                      len |-> prefix_len + Len(e.name) + HexSz
                              + (IF (e.mode % 512) = 420 THEN 0 ELSE 1) + 1] >>)
            \o FilesOf(entries, i + 1, path, prefix_len)

\* the directories of a tree, each with the indices that lead to it
RECURSIVE DirsOf(_, _, _)
DirsOf(entries, i, path) ==
    IF i > Len(entries) THEN {}
    ELSE (IF entries[i].tree # <<>>
          THEN {Append(path, i)} \cup DirsOf(entries[i].tree, 1, Append(path, i))
          ELSE {})
         \cup DirsOf(entries, i + 1, path)

\* the entry the indices lead to
RECURSIVE EntryAt(_, _)
EntryAt(e, at) == IF at = <<>> THEN e ELSE EntryAt(e.tree[Head(at)], Tail(at))

RECURSIVE SumLen(_, _, _)
SumLen(files, from, to) ==
    IF from > to THEN 0 ELSE files[from].len + SumLen(files, from + 1, to)

IsPrefix(p, q) == Len(p) <= Len(q) /\ SubSeq(q, 1, Len(p)) = p

\* C29: advancing by N bytes succeeds exactly when N is the sum of the line
\* lengths of a run of consecutive files, depth first from the current
\* position; a deleting advance that succeeds gives exactly the files of the
\* run the mode 0 and a cleared oid, and an advance that does not delete
\* changes no entry.
C29_AdvanceByRuns ==
    [][last'.op = "advance" =>
          LET files == FilesOf(manifest_tree.root.tree, 1, <<>>, 0)
              runs == {k \in 0..(Len(files) - last.pos) :
                          SumLen(files, last.pos + 1, last.pos + k) = last'.length}
          IN /\ (last'.status = "ok") = (runs # {})
             /\ last'.status = "ok" =>
                   /\ last'.pos - last.pos \in runs
                   /\ \A j \in 1..Len(files) :
                         LET now == EntryAt(manifest_tree'.root, files[j].at)
                         IN IF last'.delete /\ j > last.pos /\ j <= last'.pos
                            THEN now.mode = 0 /\ now.oid = NullOid
                            ELSE now = EntryAt(manifest_tree.root, files[j].at)]_vars

\* the files of the directory at the indices `at` that the walk deleted
DeletedUnder(root, at) ==
    {j \in 1..Len(FilesOf(root.tree, 1, <<>>, 0)) :
        /\ IsPrefix(at, FilesOf(root.tree, 1, <<>>, 0)[j].at)
        /\ EntryAt(root, FilesOf(root.tree, 1, <<>>, 0)[j].at).mode = 0}

FilesUnder(root, at) ==
    {j \in 1..Len(FilesOf(root.tree, 1, <<>>, 0)) :
        IsPrefix(at, FilesOf(root.tree, 1, <<>>, 0)[j].at)}

\* C29, the directories: when the walk is finished, every directory on the
\* path to a deleted file has its oid cleared, a directory all of whose
\* files were deleted has the mode 0, a directory with a file left keeps its
\* mode, and a directory without deleted file keeps its oid.
C29_DirectoriesOfFinishedWalk ==
    last.op = "finish" =>
        \A at \in DirsOf(manifest_tree.root.tree, 1, <<>>) :
            LET d == EntryAt(manifest_tree.root, at)
                deleted == DeletedUnder(manifest_tree.root, at)
                all == FilesUnder(manifest_tree.root, at)
            IN /\ deleted # {} => d.oid = NullOid
               /\ deleted = {} => d.oid # NullOid
               /\ d.mode = IF deleted = all THEN 0 ELSE S_IFDIR

\* C29: the walk advances by runs of files, and leaves the directories
\* accordingly once finished.
C29_TreeWalk == C29_AdvanceByRuns /\ [](C29_DirectoriesOfFinishedWalk)

\* a walk kept the file _a, deleted all of _d/_f and left _d/_b and _e
C29_Witness ==
    /\ last.op = "finish" /\ last.n = 2 /\ last.delete /\ last.pos = 2
    /\ Len(manifest_tree.root.tree) = 3
    /\ manifest_tree.root.tree[2].mode = S_IFDIR
    /\ manifest_tree.root.tree[2].oid = NullOid
    /\ manifest_tree.root.tree[2].tree[1].mode = 0
    /\ manifest_tree.root.tree[2].tree[2].mode # 0
    /\ manifest_tree.root.oid = NullOid

(***************************************************************************)
(* `store metadata X`: store_notes and what do_store writes to stdout.     *)
(***************************************************************************)
\* the words `store metadata` is given for X
MetadataNames == {"hg2git", "git2hg", "files-meta", "file-meta", "manifests"}

\* args->items[1].string[0]
FirstChar(word) ==
    CASE word \in {"files-meta", "file-meta"} -> "f"
      [] word = "git2hg" -> "g"
      [] word = "hg2git" -> "h"
      [] word = "manifests" -> "m"

\* S_IFGITLINK, and S_IFREG | 0644
S_IFGITLINK == 57344

S_IFREG_0644 == 33188

\* the modulus of the hash the oid of a notes tree is made of
NotesHashMod == 99991

\* a hash of the entries of a notes tree, the keys in descending order
RECURSIVE NotesHash(_, _)
NotesHash(notes, keys) ==
    IF keys = {} THEN 0
    ELSE LET k == CHOOSE x \in keys : \A y \in keys : y <= x
         IN (NotesHash(notes, keys \ {k}) * 131 + 7 * k + notes[k]) % NotesHashMod

\* the oid of the tree object a notes tree is written as with a mode
NotesTreeOid(mode, notes) ==
    3 + 3 * (2 * (1 + NotesHash(notes, DOMAIN notes))
             + (IF mode = S_IFGITLINK THEN 1 ELSE 0))

\* write_notes_tree(notes, result, mode): the tree object is written, the
\* tree has nothing left to write out
write_notes_tree(st, name, mode) ==
    LET oid == NotesTreeOid(mode, st.notes[name])
    IN [st EXCEPT !.odb = Put(st.odb, oid, [type |-> "tree", mode |-> mode,
                                            body |-> st.notes[name]]),
                  !.dirty[name] = FALSE,
                  !.result = oid]

\* store_notes writing the tree whether it is dirty or not
store_notes_always(st, name) ==
    write_notes_tree([st EXCEPT !.result = NullOid], name,
                     IF name = "hg2git" THEN S_IFGITLINK ELSE S_IFREG_0644)

\* store_notes(notes, result)
store_notes(st, name) ==
    LET st1 == [st EXCEPT !.result = NullOid]
    IN IF st1.dirty[name]
       THEN write_notes_tree(st1, name,
                             IF name = "hg2git" THEN S_IFGITLINK ELSE S_IFREG_0644)
       ELSE st1

\* a hex digit, as oid_to_hex writes it
HexChar(d) == IF d < 10 THEN 48 + d ELSE 87 + d

\* oid_to_hex, the `width` last digits of it
RECURSIVE oid_to_hex(_, _)
oid_to_hex(oid, width) ==
    IF width = 0 THEN <<>>
    ELSE Append(oid_to_hex(oid \div 16, width - 1), HexChar(oid % 16))

\* do_store for the words after `store`, the first of them `metadata`
do_store_metadata(args) ==
    LET st == [status |-> "ok", msg |-> "", odb |-> odb, dirty |-> dirty,
               notes |-> [n \in DOMAIN dirty |->
                            CASE n = "hg2git" -> hg2git
                              [] n = "git2hg" -> git2hg
                              [] n = "files-meta" -> files_meta],
               result |-> NullOid, out |-> <<>>]
    IN IF Len(args) < 2 THEN Die(st, "store needs at least 3 arguments")
       ELSE IF Len(args) # 2 THEN Die(st, "store metadata needs 3 arguments")
       ELSE IF args[2] \in {"hg2git", "git2hg", "files-meta"}
       THEN LET c == FirstChar(args[2])
                name == CASE c = "f" -> "files-meta"
                          [] c = "g" -> "git2hg"
                          [] c = "h" -> "hg2git"
                st1 == store_notes(st, name)
            IN [st1 EXCEPT !.out = oid_to_hex(st1.result, 40) \o <<10>>]
       ELSE Die(st, "Unknown metadata kind")

\* the argument lists of `store metadata`
MetadataArgs ==
    {<<"metadata", X>> : X \in MetadataNames}
        \cup {<<"metadata">>, <<"metadata", "hg2git", "hg2git">>}

\* the command `store metadata ...`
StoreMetadata(args) ==
    /\ Alive
    /\ last.n < MaxCommands
    /\ LET st == do_store_metadata(args)
       IN /\ odb' = st.odb
          /\ dirty' = st.dirty
          /\ last' = [op |-> "store_metadata", status |-> st.status, msg |-> st.msg,
                      n |-> last.n + 1, args |-> args, out |-> st.out]
    /\ UNCHANGED <<headVars, packVars, noteVars, last_file, probe, manifestVars, cg,
                   shallow, manifest_tree, session>>

NextStore ==
    \/ \E kind \in SetKinds : \E hg_id \in HgNodes :
          \E git_id \in DOMAIN NotesOdb \cup {NullOid} : Set(kind, hg_id, git_id)
    \/ \E args \in MetadataArgs : StoreMetadata(args)

SpecStore == Init /\ [][NextStore]_vars

\* the number a sequence of hex digits writes; -1 when one of them is no
\* hex digit
RECURSIVE FromHex(_)
FromHex(s) ==
    IF s = <<>> THEN 0
    ELSE LET c == s[Len(s)]
             d == IF c \in 48..57 THEN c - 48 ELSE IF c \in 97..102 THEN c - 87 ELSE -1
             rest == FromHex(SubSeq(s, 1, Len(s) - 1))
         IN IF d = -1 \/ rest = -1 THEN -1 ELSE 16 * rest + d

\* the notes tree a name of `store metadata` stands for
NotesNamed(X) ==
    CASE X = "hg2git" -> hg2git [] X = "git2hg" -> git2hg [] X = "files-meta" -> files_meta

\* C22: `store metadata X` for X in hg2git, git2hg, files-meta writes 40 hex
\* characters and a newline to stdout: the oid of the tree just written with
\* the entries of the named notes tree when that tree has modifications not
\* written out yet, the null oid when it has none; any other X is fatal and
\* writes nothing.
C22_StoreMetadataOutput ==
    [][(last'.op = "store_metadata" /\ Len(last'.args) = 2) =>
          LET X == last'.args[2]
              out == last'.out
          IN IF X \in {"hg2git", "git2hg", "files-meta"}
             THEN /\ last'.status = "ok"
                  /\ Len(out) = 41 /\ out[41] = 10
                  /\ FromHex(SubSeq(out, 1, 40)) # -1
                  /\ UNCHANGED noteVars
                  /\ IF dirty[X]
                     THEN LET oid == FromHex(SubSeq(out, 1, 40))
                          IN /\ oid # NullOid
                             /\ oid \in DOMAIN odb'
                             /\ odb'[oid].type = "tree"
                             /\ odb'[oid].body = NotesNamed(X)
                             /\ odb'[oid].mode = IF X = "hg2git" THEN S_IFGITLINK
                                                 ELSE S_IFREG_0644
                             /\ ~dirty'[X]
                             /\ \A Y \in DOMAIN dirty \ {X} : dirty'[Y] = dirty[Y]
                     ELSE /\ FromHex(SubSeq(out, 1, 40)) = NullOid
                          /\ UNCHANGED <<odb, dirty>>
             ELSE /\ last'.status = "fatal"
                  /\ out = <<>>
                  /\ UNCHANGED <<odb, dirty, noteVars>>]_vars

\* git2hg is written out after a `set changeset-metadata`, hg2git being
\* dirty too
C22_Witness ==
    /\ last.op = "store_metadata" /\ last.status = "ok"
    /\ last.args = <<"metadata", "git2hg">>
    /\ FromHex(SubSeq(last.out, 1, 40)) # NullOid
    /\ git2hg # <<>>
    /\ dirty["hg2git"] /\ ~dirty["git2hg"]

(***************************************************************************)
(* `commit` and `reset`: maybe_reset_notes on the branch the command named. *)
(***************************************************************************)
\* the refs the commands name
Refs == {"refs/cinnabar/hg2git", "refs/notes/cinnabar", "refs/cinnabar/files-meta",
         "refs/heads/x"}

\* the notes trees that commits of the repository hold when the session
\* starts: an empty one, one of hg2git and one of git2hg
StoredNotes ==
    {[mode |-> S_IFGITLINK, notes |-> <<>>],
     [mode |-> S_IFGITLINK, notes |-> Put(<<>>, 1, CommitOid(1))],
     [mode |-> S_IFREG_0644,
      notes |-> Put(<<>>, CommitOid(1), BlobOid(MetadataBlob(2)))]}

\* the oid of the commit of a tree, without parents
NotesCommitOid(tree_oid) == 2 + 3 * tree_oid

NotesCommit(tree_oid) == [type |-> "commit", body |-> <<>>, tree |-> tree_oid]

ResetOdb ==
    LET trees == {NotesTreeOid(s.mode, s.notes) : s \in StoredNotes}
        objects == DOMAIN NotesOdb \cup trees \cup {NotesCommitOid(t) : t \in trees}
    IN [o \in objects |->
          IF o \in DOMAIN NotesOdb THEN NotesOdb[o]
          ELSE IF o \in trees
          THEN LET s == CHOOSE s \in StoredNotes : NotesTreeOid(s.mode, s.notes) = o
               IN [type |-> "tree", mode |-> s.mode, body |-> s.notes]
          ELSE NotesCommit(CHOOSE t \in trees : NotesCommitOid(t) = o)]

\* init_notes(notes, oid_to_hex(&b->oid), ...): the notes of the tree of
\* the commit
init_notes(db, oid) == db[db[oid].tree].body

\* maybe_reset_notes for every ref of refs/cinnabar
maybe_reset_notes_any_ref(st, branch, b_oid) ==
    LET name == IF branch = "refs/notes/cinnabar" THEN "git2hg"
                ELSE IF branch = "refs/heads/x" THEN "none" ELSE "hg2git"
    IN IF name # "none" /\ b_oid # NullOid
       THEN [st EXCEPT !.notes[name] = init_notes(st.odb, b_oid),
                       !.dirty[name] = FALSE]
       ELSE st

\* maybe_reset_notes(branch), b_oid the oid of the branch looked up
maybe_reset_notes(st, branch, b_oid) ==
    LET name == IF branch = "refs/cinnabar/hg2git" THEN "hg2git"
                ELSE IF branch = "refs/notes/cinnabar" THEN "git2hg"
                ELSE "none"
    IN IF name # "none" /\ b_oid # NullOid
       THEN [st EXCEPT !.notes[name] = init_notes(st.odb, b_oid),
                       !.dirty[name] = FALSE]
       ELSE st

\* the state maybe_reset_notes works on
ResetState(db) ==
    [odb |-> db, dirty |-> dirty, notes |-> [hg2git |-> hg2git, git2hg |-> git2hg]]

\* a `commit` or `reset` command left the branch `branch` at b_oid, with db
\* the objects it leaves
BranchCommand(command, branch, b_oid, db) ==
    /\ Alive
    /\ last.n < MaxCommands
    /\ LET st == maybe_reset_notes(ResetState(db), branch, b_oid)
       IN /\ odb' = st.odb
          /\ hg2git' = st.notes.hg2git
          /\ git2hg' = st.notes.git2hg
          /\ dirty' = st.dirty
          /\ last' = [op |-> command, status |-> "ok", msg |-> "", n |-> last.n + 1,
                      branch |-> branch, oid |-> b_oid, before |-> dirty]
    /\ UNCHANGED <<headVars, packVars, files_meta, last_file, probe, manifestVars, cg,
                   shallow, manifest_tree, session>>

\* the command `commit <ref>` of a tree the repository holds: parse_new_commit
\* stores the commit and sets the branch to it
Commit(branch, tree_oid) ==
    /\ tree_oid \in DOMAIN odb
    /\ odb[tree_oid].type = "tree"
    /\ BranchCommand("commit", branch, NotesCommitOid(tree_oid),
                     Put(odb, NotesCommitOid(tree_oid), NotesCommit(tree_oid)))

\* the command `reset <ref>`, with `from <commit>` or without: parse_reset_branch
\* sets the branch to the commit, or to the null oid
Reset(branch, from) ==
    /\ from # NullOid => from \in DOMAIN odb /\ "tree" \in DOMAIN odb[from]
    /\ BranchCommand("reset", branch, from, odb)

InitReset ==
    /\ odb = ResetOdb
    /\ graph = <<<<>>, <<1>>, <<2>>, <<3>>>>
    /\ tip = [exists |-> TRUE, parents |-> <<1>>, flat |-> FALSE]
    /\ heads_kind = "manifest"
    /\ heads = <<>>
    /\ heads_sorted = FALSE
    /\ pack = NoPack
    /\ object_table = <<>>
    /\ stored = <<>>
    /\ InitNotes
    /\ files_meta = <<>>
    /\ last_file = NoFile
    /\ probe = NoProbe
    /\ last_manifest = NoManifest
    /\ experiments = FALSE
    /\ cg = NoChangegroup
    /\ InitSession
    /\ last = [op |-> "init", status |-> "ok", n |-> 0]

NextReset ==
    \/ \E kind \in {"file", "changeset", "changeset-metadata"} : \E hg_id \in HgNodes :
          \E git_id \in DOMAIN NotesOdb \cup {NullOid} : Set(kind, hg_id, git_id)
    \/ \E X \in {"hg2git", "git2hg"} : StoreMetadata(<<"metadata", X>>)
    \/ \E branch \in Refs : \E tree_oid \in DOMAIN odb : Commit(branch, tree_oid)
    \/ \E branch \in Refs : \E from \in DOMAIN odb \cup {NullOid} : Reset(branch, from)

SpecReset == InitReset /\ [][NextReset]_vars

\* the notes a commit holds
NotesContent(db, oid) == db[db[oid].tree].body

\* C23: after a `commit` or `reset` that leaves refs/cinnabar/hg2git (resp.
\* refs/notes/cinnabar) at a non-null commit, hg2git (resp. git2hg) is
\* exactly the notes of that commit, whatever was set or stored before and
\* not written out; when the branch is left null, or the command names
\* another ref, the notes trees are unchanged.
C23_NotesFollowBranch ==
    [][last'.op \in {"commit", "reset"} =>
          /\ last'.status = "ok"
          /\ files_meta' = files_meta
          /\ IF last'.branch = "refs/cinnabar/hg2git" /\ last'.oid # NullOid
             THEN /\ hg2git' = NotesContent(odb', last'.oid)
                  /\ git2hg' = git2hg
             ELSE IF last'.branch = "refs/notes/cinnabar" /\ last'.oid # NullOid
             THEN /\ git2hg' = NotesContent(odb', last'.oid)
                  /\ hg2git' = hg2git
             ELSE hg2git' = hg2git /\ git2hg' = git2hg]_vars

\* a `reset` of refs/cinnabar/hg2git to a commit of the repository, as third
\* command, left hg2git with the one note of that commit, where it held
\* modifications not written out, and left git2hg modified
C23_Witness ==
    /\ last.op = "reset" /\ last.n = 3
    /\ last.branch = "refs/cinnabar/hg2git"
    /\ last.oid # NullOid
    /\ hg2git = Put(<<>>, 1, CommitOid(1))
    /\ last.before["hg2git"]
    /\ ~dirty["hg2git"]
    /\ dirty["git2hg"]

(***************************************************************************)
(* init, `done` and the cleanup at exit; the shallow commits store_object  *)
(* unregisters.                                                            *)
(***************************************************************************)
\* the objects the packs of the repository hold when the process starts: a
\* commit, a blob and a commit registered as shallow
ExistingObjects == {3, 4, 5}

\* the commits registered as shallow when the process starts: one that no
\* pack holds, one that a pack holds
RegisteredShallow == {1, 5}

\* the type store_object is given with the data of an oid
TypeOfStored(oid) == IF oid % 2 = 1 THEN "commit" ELSE "blob"

\* the commands of a process, the end of the process not counted
MaxSessionCommands == 4

\* the branches `commit` and `reset` name, and the command that names none
NoBranch == ""
BranchNames == {"refs/heads/b"}

\* cinnabar_unregister_shallow raising update_shallow whatever
\* unregister_shallow returns
cinnabar_unregister_shallow_always(sh, oid) ==
    [registered |-> sh.registered \ {oid}, update_shallow |-> TRUE]

\* cinnabar_unregister_shallow(oid): unregister_shallow returns 0 when the
\* commit was registered
cinnabar_unregister_shallow(sh, oid) ==
    IF oid \in sh.registered
    THEN [registered |-> sh.registered \ {oid}, update_shallow |-> TRUE]
    ELSE sh

\* ENSURE_INIT(): init() unless initialized.  init() allocates the object
\* table and the branch table anew and starts a pack.
ENSURE_INIT(early) ==
    IF session.initialized
    THEN [pack |-> pack, object_table |-> object_table, stored |-> stored,
          session |-> session]
    ELSE [pack |-> start_packfile(pack, early), object_table |-> <<>>,
          stored |-> <<>>,
          session |-> [session EXCEPT !.initialized = TRUE, !.branches = <<>>]]

\* the commands `store`, `blob` and `commit` (of a branch):
\* require_explicit_termination = 1, then store_object(type, dat, NULL, oid, 0)
\* for the data of the oid: a duplicate of the table, an object of an
\* existing pack, or a new object written to the pack
StoreTyped(oid, size, branch, early) ==
    /\ last.op # "exit"
    /\ last.n < MaxSessionCommands
    /\ branch # NoBranch => TypeOfStored(oid) = "commit"
    /\ LET x == ENSURE_INIT(early)
           s1 == [x.session EXCEPT !.require_explicit_termination = TRUE,
                                   !.since_done = TRUE]
       IN /\ x.pack.fault = "none"
          /\ session' = IF branch = NoBranch THEN s1
                        ELSE [s1 EXCEPT !.branches = Put(@, branch, oid)]
          /\ IF oid \in DOMAIN x.object_table /\ x.object_table[oid].offset # 0
             THEN /\ last' = [op |-> "store_object", status |-> "ok", n |-> last.n + 1,
                              oid |-> oid,
                              wrote |-> FALSE, existing |-> FALSE]
                  /\ pack' = x.pack
                  /\ object_table' = x.object_table
                  /\ stored' = x.stored
                  /\ UNCHANGED shallow
             ELSE IF oid \in ExistingObjects \cup session.packed
             THEN /\ object_table' = Put(x.object_table, oid,
                                         [offset |-> 1, pack_id |-> MAX_PACK_ID])
                  /\ shallow' = IF TypeOfStored(oid) = "commit"
                                THEN cinnabar_unregister_shallow(shallow, oid)
                                ELSE shallow
                  /\ last' = [op |-> "store_object", status |-> "ok", n |-> last.n + 1,
                              oid |-> oid,
                              wrote |-> FALSE, existing |-> TRUE]
                  /\ pack' = x.pack
                  /\ stored' = x.stored
             ELSE /\ x.pack.pack_size + size[2] + HashSz <= MaxPackSize
                  /\ pack' = hashwrite(hashwrite(x.pack, size[1]), size[2])
                  /\ object_table' = Put(x.object_table, oid,
                                         [offset |-> x.pack.pack_size,
                                          pack_id |-> x.pack.pack_id])
                  /\ stored' = Put(x.stored, oid, x.pack.pack_size)
                  /\ last' = [op |-> "store_object", status |-> "ok", n |-> last.n + 1,
                              oid |-> oid,
                              wrote |-> TRUE, existing |-> FALSE]
                  /\ UNCHANGED shallow
    /\ UNCHANGED <<odb, headVars, noteVars, last_file, probe, manifestVars, cg, dirty,
                   manifest_tree>>

\* the command `reset` of a branch to a commit
ResetBranch(branch, oid, early) ==
    /\ last.op # "exit"
    /\ last.n < MaxSessionCommands
    /\ LET x == ENSURE_INIT(early)
       IN /\ x.pack.fault = "none"
          /\ pack' = x.pack
          /\ object_table' = x.object_table
          /\ stored' = x.stored
          /\ session' = [x.session EXCEPT !.branches = Put(@, branch, oid)]
    /\ last' = [op |-> "reset", status |-> "ok", n |-> last.n + 1]
    /\ UNCHANGED <<odb, headVars, noteVars, last_file, probe, manifestVars, cg, dirty,
                   shallow, manifest_tree>>

\* object_count left as the stores counted it
cleanup_object_count_kept(x) == Cardinality(DOMAIN x.stored)

\* object_count as cleanup hands it to end_packfile
cleanup_object_count(x) ==
    IF x.session.require_explicit_termination THEN 0
    ELSE Cardinality(DOMAIN x.stored)

\* dump_branches: every branch of the table is written to its ref
dump_branches(refs, branches) ==
    [r \in DOMAIN refs \cup DOMAIN branches |->
        IF r \in DOMAIN branches THEN branches[r] ELSE refs[r]]

\* cleanup(): nothing unless initialized; the pack is ended, kept when
\* object_count is not 0; without require_explicit_termination the shallow
\* file is committed when update_shallow is set, and the branches are dumped
cleanup(x) ==
    IF ~x.session.initialized
    THEN [pack |-> x.pack, session |-> x.session, ran |-> FALSE, object_count |-> 0,
          commit_shallow_file |-> FALSE, dump_branches |-> FALSE]
    ELSE LET explicit == x.session.require_explicit_termination
         IN [pack |-> end_packfile(x.pack),
             session |-> [x.session EXCEPT
                !.initialized = FALSE,
                !.packed = IF cleanup_object_count(x) # 0
                           THEN @ \cup DOMAIN x.stored ELSE @,
                !.shallow_file = IF ~explicit /\ shallow.update_shallow
                                 THEN <<shallow.registered>> ELSE @,
                !.refs = IF ~explicit THEN dump_branches(@, x.session.branches)
                         ELSE @],
             ran |-> TRUE,
             object_count |-> cleanup_object_count(x),
             commit_shallow_file |-> ~explicit /\ shallow.update_shallow,
             dump_branches |-> ~explicit]

\* what a cleanup leaves in the history
Cleaned(op, c) ==
    [op |-> op, status |-> "ok", n |-> last.n + 1, first |-> last.op = "init",
     ran |-> c.ran,
     object_count |-> c.object_count, commit_shallow_file |-> c.commit_shallow_file,
     dump_branches |-> c.dump_branches, before |-> session]

\* the command `done`: require_explicit_termination = 0, cleanup()
Done(early) ==
    /\ last.op # "exit"
    /\ last.n < MaxSessionCommands
    /\ LET x == ENSURE_INIT(early)
           c == cleanup([x EXCEPT !.session.require_explicit_termination = FALSE])
       IN /\ x.pack.fault = "none"
          /\ pack' = c.pack
          /\ object_table' = x.object_table
          /\ stored' = x.stored
          /\ session' = [c.session EXCEPT !.require_explicit_termination = FALSE,
                                          !.since_done = FALSE]
          /\ last' = Cleaned("done", c)
    /\ UNCHANGED <<odb, headVars, noteVars, last_file, probe, manifestVars, cg, dirty,
                   shallow, manifest_tree>>

\* the process ends: the cleanup registered by init() with atexit runs
AtExit ==
    /\ last.op # "exit"
    /\ LET c == cleanup([pack |-> pack, object_table |-> object_table,
                         stored |-> stored, session |-> session])
       IN /\ pack' = c.pack
          /\ session' = c.session
          /\ last' = Cleaned("exit", c)
    /\ UNCHANGED <<odb, headVars, object_table, stored, noteVars, last_file, probe,
                   manifestVars, cg, dirty, shallow, manifest_tree>>

InitDone ==
    /\ odb = BaseOdb
    /\ graph \in {CHOOSE g \in Graphs : TRUE}
    /\ tip = [exists |-> FALSE, parents |-> <<>>, flat |-> FALSE]
    /\ heads_kind = "manifest"
    /\ heads = <<>>
    /\ heads_sorted = FALSE
    /\ pack = NoPack
    /\ object_table = <<>>
    /\ stored = <<>>
    /\ InitNotes
    /\ files_meta = <<>>
    /\ last_file = NoFile
    /\ probe = NoProbe
    /\ last_manifest = NoManifest
    /\ experiments = FALSE
    /\ cg = NoChangegroup
    /\ dirty = NotDirty
    /\ shallow = [registered |-> RegisteredShallow, update_shallow |-> FALSE]
    /\ manifest_tree = NoManifestTree
    /\ session = NoSession
    /\ last = [op |-> "init", status |-> "ok", n |-> 0]

NextDone ==
    \/ \E oid \in PackOids : \E size \in DeltaSizes :
       \E branch \in BranchNames \cup {NoBranch} : \E early \in BOOLEAN :
          StoreTyped(oid, size, branch, early)
    \/ \E branch \in BranchNames : \E oid \in {3, 5} : \E early \in BOOLEAN :
          ResetBranch(branch, oid, early)
    \/ \E early \in BOOLEAN : Done(early)
    \/ AtExit

SpecDone == InitDone /\ [][NextDone]_vars

\* C24: on `done` the pack is ended and the branches are written, and the
\* shallow file is rewritten exactly when update_shallow was set in the
\* session, which is when a commit registered as shallow was unregistered;
\* update_shallow is set only by a store_object of a commit that an existing
\* pack holds and that was registered as shallow; a session of `done` alone
\* leaves no object in the pack, the notes trees as they were, and does not
\* rewrite the shallow file.
C24_CleanExit ==
    [][/\ last'.op = "done" =>
             /\ last'.ran /\ ~pack'.pack_data /\ ~session'.initialized
             /\ last'.dump_branches
             /\ session'.refs = dump_branches(session.refs,
                                   IF session.initialized THEN session.branches
                                   ELSE <<>>)
             /\ last'.commit_shallow_file = shallow.update_shallow
             /\ shallow.update_shallow = (shallow.registered # RegisteredShallow)
             /\ last'.commit_shallow_file =>
                   session'.shallow_file = <<shallow.registered>>
             /\ ~last'.commit_shallow_file => UNCHANGED session.shallow_file
             /\ last'.object_count = IF session.initialized
                                     THEN Cardinality(DOMAIN stored) ELSE 0
             /\ session'.packed = session.packed \cup
                                  (IF session.initialized THEN DOMAIN stored ELSE {})
             /\ UNCHANGED <<noteVars, dirty, odb>>
             /\ last.op = "init" =>
                   /\ last'.object_count = 0
                   /\ session'.packed = {}
                   /\ session'.shallow_file = <<>>
       /\ (shallow'.update_shallow /\ ~shallow.update_shallow) =>
             /\ last'.op = "store_object" /\ last'.existing /\ ~last'.wrote
             /\ TypeOfStored(last'.oid) = "commit"
             /\ last'.oid \in ExistingObjects \cup session.packed
             /\ last'.oid \in shallow.registered
             /\ last'.oid \notin shallow'.registered]_vars

\* `done` rewrote the shallow file of a session that wrote objects and
\* stored the shallow commit of an existing pack
C24_Witness ==
    /\ last.op = "done"
    /\ session.shallow_file = <<{1}>>
    /\ last.commit_shallow_file
    /\ last.object_count >= 1
    /\ 1 \in session.packed
    /\ 5 \in DOMAIN object_table
    /\ session.refs # <<>>

\* what the process left in the repository: the objects of the packs it kept,
\* the refs and the shallow file it wrote
Persisted(s) == <<s.packed, s.refs, s.shallow_file>>

\* the cleanup at exit of a process that executed `store`, `blob` or
\* `commit` since its last `done` (or since it started): the object count
\* of the pack is reset, and no object, ref or shallow file is left
ExitDiscards ==
    (last'.op = "exit" /\ session.since_done) =>
        /\ last'.ran /\ last'.object_count = 0
        /\ ~last'.dump_branches /\ ~last'.commit_shallow_file
        /\ Persisted(session') = Persisted(session)

\* the cleanup at exit that follows `done` changes nothing
ExitAfterDoneIsIdle ==
    (last'.op = "exit" /\ last.op = "done") =>
        /\ ~last'.ran
        /\ UNCHANGED <<pack, object_table, stored, session, shallow, noteVars, odb>>

====
